---- MODULE Spec2Model ----
(***************************************************************************)
(* State-machine model of the athlete-chain Solidity contracts:            *)
(*   AthleteContract      (the Ledger; two variants in the repository:     *)
(*                         the address-based one, suffix V1, and the       *)
(*                         role-based one, suffix V2)                      *)
(*   AthleteChainFactory  (user registry, contract creation and minting;  *)
(*                         both variants)                                  *)
(*   SponsorshipNFT       (one token per sponsorship contract)             *)
(*   DisputeResolution    (the arbitration engine)                         *)
(* A transaction is one atomic step, except in SpecReentrancy, where a     *)
(* payment release is split at its external transfer.  A reverting         *)
(* transaction changes                                                     *)
(* nothing, so it is a stuttering step; for every entry point an operator  *)
(* ...Err gives the revert reason the code produces for a call (OK when    *)
(* the call goes through), with the require statements in source order.    *)
(* String payloads that never influence control flow (descriptions,        *)
(* deadlines, reasons, evidence hashes of disputes) are left out of the    *)
(* stored state; the contract document hash and its history are kept.      *)
(***************************************************************************)
EXTENDS Integers, Sequences, FiniteSets, TLC

(***************************************************************************)
(* Bounds of the model.                                                    *)
(***************************************************************************)
MaxMilestones == 2     \* milestones stored per contract
MaxAmount == 1         \* largest milestone amount / total value / msg.value
InitFunds == 2         \* native and token funds the sponsor starts with
MaxUpdates == 1        \* document updates recorded per contract
MaxUserRoles == 2      \* entries of a user's role list in the Factory

(***************************************************************************)
(* Addresses.                                                              *)
(***************************************************************************)
ZERO == "0x0"
LEDGER == "ledger"
FACTORY == "factory"
DR == "dr"
TOKEN == "token"
ADMIN == "admin"
EOAs == {"ath", "spo", "agent", "arb1", "arb2", "arb3", ADMIN}
Holders == {"ath", "spo", LEDGER, DR}
Arbitrators == {"arb1", "arb2", "arb3"}

ATHLETE_ROLE == "ATHLETE_ROLE"
SPONSOR_ROLE == "SPONSOR_ROLE"
AGENT_ROLE == "AGENT_ROLE"
ARBITRATOR_ROLE == "ARBITRATOR_ROLE"
DEFAULT_ADMIN_ROLE == "DEFAULT_ADMIN_ROLE"

(***************************************************************************)
(* Inputs the transactions are driven with.                                *)
(***************************************************************************)
\* The contract ids and dispute ids the transactions are driven over: one
\* contract, which every entry point can also address before it is created,
\* and two disputes, which can be voted on before they are created.
ContractIds == {0}
\* Storage slots of the model: the contract ids and token ids that exist as
\* keys of the mappings (token id 0 is never minted).
AllContractIds == {0, 1}
TokenIdSlots == {0, 1, 2}
Accounts == EOAs \cup {DR, FACTORY, ZERO}
DisputeIds == {0, 1}
Amounts == 0 .. MaxAmount
AthleteChoices == {ZERO, "ath", DR}
SponsorChoices == {ZERO, "spo"}
TokenChoices == {ZERO, TOKEN}
CreateDocuments == {"doc1"}
UpdateDocuments == {"doc2"}
ArbitratorLists == {<< >>, <<"arb1", DR>>}
LedgerArbitratorLists == {<< >>, <<"arb1">>}
DateChoices == {<<1, 2>>, <<2, 1>>}
Batches == {<< >>} \cup {<<a>> : a \in Amounts} \cup {<<a, b>> : a \in Amounts, b \in Amounts}
BatchLens == {0, 1, 2}
Registrations == {<<"ath", ATHLETE_ROLE>>, <<DR, ARBITRATOR_ROLE>>}
DeployedName == "Test User"
OK == "ok"

VARIABLES variant, contracts, contractCount, ledgerRoles, factoryRoles,
          ethBal, tokBal, allowance, paymentReleased,
          disputes, disputeCount, disputeIdOf, drRoles,
          locked, frame,
          tokenIds, tokenIdOf, contractIdOf, owners,
          isRegistered, userInfo, userRoles

vars == <<variant, contracts, contractCount, ledgerRoles, factoryRoles,
          ethBal, tokBal, allowance, paymentReleased,
          disputes, disputeCount, disputeIdOf, drRoles,
          locked, frame,
          tokenIds, tokenIdOf, contractIdOf, owners,
          isRegistered, userInfo, userRoles>>

\* The Ledger's re-entrancy lock and the payment release whose external
\* transfer is in progress.
callVars == <<locked, frame>>
\* SponsorshipNFT: the token counter, the two id mappings, the ERC721 owners.
nftVars == <<tokenIds, tokenIdOf, contractIdOf, owners>>
\* The Factory's user registry.
registryVars == <<isRegistered, userInfo, userRoles>>
extVars == <<callVars, nftVars, registryVars>>

ledgerVars == <<contracts, contractCount>>
moneyVars == <<ethBal, tokBal, allowance, paymentReleased>>
roleVars == <<ledgerRoles, factoryRoles, drRoles>>
disputeVars == <<disputes, disputeCount, disputeIdOf>>

(***************************************************************************)
(* Helpers.                                                                *)
(***************************************************************************)
RECURSIVE SumAmounts(_)
SumAmounts(s) == IF s = << >> THEN 0 ELSE Head(s) + SumAmounts(Tail(s))

RECURSIVE SumMilestones(_)
SumMilestones(ms) == IF ms = << >> THEN 0 ELSE Head(ms).amount + SumMilestones(Tail(ms))

InList(a, list) == \E i \in 1 .. Len(list) : list[i] = a

hasRole(roles, role, account) == <<account, role>> \in roles

\* An externally owned account accepts native currency; DisputeResolution has
\* neither a receive nor a payable fallback function, so a transfer to it reverts.
CanReceiveEth(a) == a \in EOAs

Pay(bal, from, to, amount) ==
  IF from = to THEN bal
  ELSE [bal EXCEPT ![from] = @ - amount, ![to] = @ + amount]

NewMilestone(a) == [amount |-> a, status |-> "Pending", evidence |-> "", paid |-> FALSE]

EmptyContract ==
  [athlete |-> ZERO, sponsor |-> ZERO, totalValue |-> 0, startDate |-> 0, endDate |-> 0,
   state |-> "Draft", paymentToken |-> ZERO, milestones |-> << >>, arbitrators |-> << >>,
   contractIPFSHash |-> "", updateHistory |-> << >>]

EmptyDispute ==
  [contractId |-> 0, initiator |-> ZERO, resolved |-> FALSE, athleteFavor |-> FALSE,
   votedArbitrators |-> << >>, arbitratorVotes |-> [a \in Arbitrators |-> FALSE],
   athleteVotes |-> 0, sponsorVotes |-> 0]

(***************************************************************************)
(* State after deployment: the constructors, then the deploy script, which *)
(* registers one athlete, sponsor, agent and arbitrator through the        *)
(* Factory and grants the arbitrator the role on DisputeResolution.        *)
(***************************************************************************)
EmptyUser == [name |-> "", isVerified |-> FALSE, contracts |-> << >>]

NoFrame == [kind |-> "none"]

DeployedUsers ==
  {<<"ath", ATHLETE_ROLE>>, <<"spo", SPONSOR_ROLE>>, <<"agent", AGENT_ROLE>>,
   <<"arb1", ARBITRATOR_ROLE>>}

Init ==
  /\ variant \in {"address", "role"}
  /\ contracts = [c \in AllContractIds |-> EmptyContract]
  /\ contractCount = 0
  /\ ledgerRoles = IF variant = "role"
                     THEN {<<FACTORY, DEFAULT_ADMIN_ROLE>>} \cup DeployedUsers ELSE {}
  /\ factoryRoles = IF variant = "role"
                      THEN {<<ADMIN, DEFAULT_ADMIN_ROLE>>} \cup DeployedUsers
                      ELSE DeployedUsers
  /\ ethBal = [h \in Holders |-> IF h = "spo" THEN InitFunds ELSE 0]
  /\ tokBal = [h \in Holders |-> IF h = "spo" THEN InitFunds ELSE 0]
  /\ allowance = [h \in Holders |-> 0]
  /\ paymentReleased = [c \in AllContractIds |-> [i \in 1 .. MaxMilestones |-> 0]]
  /\ disputes = [d \in DisputeIds |-> EmptyDispute]
  /\ disputeCount = 0
  /\ disputeIdOf = [c \in AllContractIds |-> 0]
  /\ drRoles = {<<ADMIN, DEFAULT_ADMIN_ROLE>>, <<"arb1", ARBITRATOR_ROLE>>}
  /\ locked = FALSE
  /\ frame = NoFrame
  /\ tokenIds = 0
  /\ tokenIdOf = [c \in AllContractIds |-> 0]
  /\ contractIdOf = [t \in TokenIdSlots |-> 0]
  /\ owners = [t \in TokenIdSlots |-> ZERO]
  /\ isRegistered = IF variant = "address" THEN {r[1] : r \in DeployedUsers} ELSE {}
  /\ userRoles = [a \in Accounts |->
                    IF variant = "role" /\ \E r \in DeployedUsers : r[1] = a
                      THEN <<(CHOOSE r \in DeployedUsers : r[1] = a)[2]>>
                      ELSE << >>]
  /\ userInfo = [a \in Accounts |->
                   IF a \in {r[1] : r \in DeployedUsers}
                     THEN [name |-> DeployedName, isVerified |-> TRUE, contracts |-> << >>]
                     ELSE EmptyUser]

(***************************************************************************)
(* Ledger, address-based variant (AthleteContract without AccessControl).  *)
(***************************************************************************)
createContractV1Err(athlete, sponsor, startDate, endDate) ==
  IF ~(endDate > startDate) THEN "End date must be after start date"
  ELSE IF ~(athlete # ZERO /\ sponsor # ZERO) THEN "Invalid addresses"
  ELSE OK

StoreContractWithin(ids, athlete, sponsor, contractIPFSHash, totalValue, startDate, endDate, paymentToken, arbitrators) ==
  /\ contractCount \in ids
  /\ contracts' = [contracts EXCEPT ![contractCount] =
                     [@ EXCEPT !.athlete = athlete, !.sponsor = sponsor,
                               !.contractIPFSHash = contractIPFSHash,
                               !.totalValue = totalValue,
                               !.startDate = startDate, !.endDate = endDate,
                               !.state = "Draft", !.paymentToken = paymentToken,
                               !.arbitrators = arbitrators]]
  /\ contractCount' = contractCount + 1

StoreContract(athlete, sponsor, contractIPFSHash, totalValue, startDate, endDate, paymentToken, arbitrators) ==
  StoreContractWithin(ContractIds, athlete, sponsor, contractIPFSHash, totalValue, startDate, endDate,
                      paymentToken, arbitrators)

createContractV1(athlete, sponsor, contractIPFSHash, totalValue, startDate, endDate, paymentToken, arbitrators) ==
  /\ variant = "address"
  /\ createContractV1Err(athlete, sponsor, startDate, endDate) = OK
  /\ StoreContract(athlete, sponsor, contractIPFSHash, totalValue, startDate, endDate, paymentToken, arbitrators)
  /\ UNCHANGED <<variant, extVars, roleVars, moneyVars, disputeVars>>

addMilestonesV1Err(sender, contractId, descLen, amounts, deadlineLen) ==
  LET c == contracts[contractId] IN
  IF ~(sender = c.athlete \/ sender = c.sponsor) THEN "Only athlete or sponsor can modify"
  ELSE IF c.state # "Draft" THEN "Contract not in draft state"
  ELSE IF ~(descLen = Len(amounts) /\ Len(amounts) = deadlineLen) THEN "Arrays length mismatch"
  ELSE IF SumAmounts(amounts) # c.totalValue THEN "Total milestone amounts must match contract value"
  ELSE OK

PushMilestones(contractId, amounts) ==
  /\ Len(contracts[contractId].milestones) + Len(amounts) <= MaxMilestones
  /\ contracts' = [contracts EXCEPT ![contractId].milestones =
                     @ \o [i \in 1 .. Len(amounts) |-> NewMilestone(amounts[i])]]

addMilestonesV1(sender, contractId, descLen, amounts, deadlineLen) ==
  /\ variant = "address"
  /\ addMilestonesV1Err(sender, contractId, descLen, amounts, deadlineLen) = OK
  /\ PushMilestones(contractId, amounts)
  /\ UNCHANGED <<variant, extVars, contractCount, roleVars, moneyVars, disputeVars>>

activateContractV1Err(sender, contractId) ==
  LET c == contracts[contractId] IN
  IF ~(sender = c.athlete \/ sender = c.sponsor) THEN "Only athlete or sponsor can activate"
  ELSE IF c.state # "Draft" THEN "Contract not in draft state"
  ELSE IF ~(Len(c.milestones) > 0) THEN "No milestones defined"
  ELSE OK

activateContractV1(sender, contractId) ==
  /\ variant = "address"
  /\ activateContractV1Err(sender, contractId) = OK
  /\ contracts' = [contracts EXCEPT ![contractId].state = "Active"]
  /\ UNCHANGED <<variant, extVars, contractCount, roleVars, moneyVars, disputeVars>>

completeMilestoneErr(sender, contractId, milestoneIndex) ==
  LET c == contracts[contractId] IN
  IF sender # c.athlete THEN "Only athlete can complete milestone"
  ELSE IF c.state # "Active" THEN "Contract not active"
  ELSE IF ~(milestoneIndex < Len(c.milestones)) THEN "Panic: array index out of bounds"
  ELSE IF c.milestones[milestoneIndex + 1].status # "Pending" THEN "Invalid milestone status"
  ELSE OK

completeMilestone(sender, contractId, milestoneIndex, evidence) ==
  /\ variant = "address"
  /\ completeMilestoneErr(sender, contractId, milestoneIndex) = OK
  /\ contracts' = [contracts EXCEPT ![contractId].milestones[milestoneIndex + 1] =
                     [@ EXCEPT !.status = "Completed", !.evidence = evidence]]
  /\ UNCHANGED <<variant, extVars, contractCount, roleVars, moneyVars, disputeVars>>

\* transferFrom of a standard ERC20: the owner's balance and the allowance the
\* owner gave the Ledger must both cover the amount.
TransferFromOk(owner, amount) == tokBal[owner] >= amount /\ allowance[owner] >= amount

\* releaseMilestonePaymentErr without the nonReentrant modifier.
releaseMilestonePaymentErrNoLock(sender, contractId, milestoneIndex, msgValue) ==
  LET c == contracts[contractId] IN
  IF sender # c.sponsor THEN "Only sponsor can release payment"
  ELSE IF c.state # "Active" THEN "Contract not active"
  ELSE IF ~(milestoneIndex < Len(c.milestones)) THEN "Panic: array index out of bounds"
  ELSE IF c.milestones[milestoneIndex + 1].status # "Completed" THEN "Milestone not completed"
  ELSE IF c.milestones[milestoneIndex + 1].paid THEN "Payment already released"
  ELSE IF c.paymentToken = ZERO
    THEN IF msgValue # c.milestones[milestoneIndex + 1].amount THEN "Incorrect payment amount"
         ELSE IF ~CanReceiveEth(c.athlete) THEN "ETH transfer failed"
         ELSE OK
    ELSE IF ~TransferFromOk(sender, c.milestones[milestoneIndex + 1].amount) THEN "Token transfer failed"
         ELSE OK

releaseMilestonePaymentErr(sender, contractId, milestoneIndex, msgValue) ==
  LET c == contracts[contractId] IN
  IF locked THEN "ReentrancyGuard: reentrant call"
  ELSE IF sender # c.sponsor THEN "Only sponsor can release payment"
  ELSE IF c.state # "Active" THEN "Contract not active"
  ELSE IF ~(milestoneIndex < Len(c.milestones)) THEN "Panic: array index out of bounds"
  ELSE IF c.milestones[milestoneIndex + 1].status # "Completed" THEN "Milestone not completed"
  ELSE IF c.milestones[milestoneIndex + 1].paid THEN "Payment already released"
  ELSE IF c.paymentToken = ZERO
    THEN IF msgValue # c.milestones[milestoneIndex + 1].amount THEN "Incorrect payment amount"
         ELSE IF ~CanReceiveEth(c.athlete) THEN "ETH transfer failed"
         ELSE OK
    ELSE IF ~TransferFromOk(sender, c.milestones[milestoneIndex + 1].amount) THEN "Token transfer failed"
         ELSE OK

releaseMilestonePayment(sender, contractId, milestoneIndex, msgValue) ==
  LET c == contracts[contractId]
      amount == c.milestones[milestoneIndex + 1].amount IN
  /\ variant = "address"
  /\ sender \in Holders
  /\ ethBal[sender] >= msgValue
  /\ releaseMilestonePaymentErr(sender, contractId, milestoneIndex, msgValue) = OK
  /\ IF c.paymentToken = ZERO
       THEN /\ ethBal' = Pay(Pay(ethBal, sender, LEDGER, msgValue), LEDGER, c.athlete, amount)
            /\ UNCHANGED <<tokBal, allowance>>
       ELSE /\ ethBal' = Pay(ethBal, sender, LEDGER, msgValue)
            /\ tokBal' = Pay(tokBal, sender, c.athlete, amount)
            /\ allowance' = [allowance EXCEPT ![sender] = @ - amount]
  /\ contracts' = [contracts EXCEPT ![contractId].milestones[milestoneIndex + 1].paid = TRUE]
  /\ paymentReleased' = [paymentReleased EXCEPT ![contractId][milestoneIndex + 1] = @ + 1]
  /\ UNCHANGED <<variant, extVars, contractCount, roleVars, disputeVars>>

\* releaseMilestonePayment up to its external transfer: the lock is taken, the
\* value is on its way, and the recipient (or the token) has control before
\* the handler writes paid.
releaseMilestonePaymentBegin(sender, contractId, milestoneIndex, msgValue) ==
  LET c == contracts[contractId]
      amount == c.milestones[milestoneIndex + 1].amount IN
  /\ variant = "address"
  /\ sender \in Holders
  /\ ethBal[sender] >= msgValue
  /\ releaseMilestonePaymentErr(sender, contractId, milestoneIndex, msgValue) = OK
  /\ IF c.paymentToken = ZERO
       THEN /\ ethBal' = Pay(Pay(ethBal, sender, LEDGER, msgValue), LEDGER, c.athlete, amount)
            /\ UNCHANGED <<tokBal, allowance>>
       ELSE /\ ethBal' = Pay(ethBal, sender, LEDGER, msgValue)
            /\ tokBal' = Pay(tokBal, sender, c.athlete, amount)
            /\ allowance' = [allowance EXCEPT ![sender] = @ - amount]
  /\ locked' = TRUE
  /\ frame' = [kind |-> "release", contractId |-> contractId, milestoneIndex |-> milestoneIndex]
  /\ UNCHANGED <<variant, ledgerVars, paymentReleased, roleVars, disputeVars, nftVars, registryVars>>

\* The rest of releaseMilestonePayment after the transfer returned.
releaseMilestonePaymentEnd ==
  /\ variant = "address"
  /\ frame # NoFrame
  /\ contracts' = [contracts EXCEPT ![frame.contractId].milestones[frame.milestoneIndex + 1].paid = TRUE]
  /\ paymentReleased' = [paymentReleased EXCEPT ![frame.contractId][frame.milestoneIndex + 1] = @ + 1]
  /\ locked' = FALSE
  /\ frame' = NoFrame
  /\ UNCHANGED <<variant, contractCount, ethBal, tokBal, allowance, roleVars, disputeVars,
                 nftVars, registryVars>>

\* raiseDisputeErr without the Active-state requirement.
raiseDisputeErrAnyState(sender, contractId) ==
  LET c == contracts[contractId] IN
  IF ~(sender = c.athlete \/ sender = c.sponsor) THEN "Only athlete or sponsor can raise dispute"
  ELSE OK

raiseDisputeErr(sender, contractId) ==
  LET c == contracts[contractId] IN
  IF ~(sender = c.athlete \/ sender = c.sponsor) THEN "Only athlete or sponsor can raise dispute"
  ELSE IF c.state # "Active" THEN "Contract not active"
  ELSE OK

raiseDisputeV1(sender, contractId) ==
  /\ variant = "address"
  /\ raiseDisputeErr(sender, contractId) = OK
  /\ contracts' = [contracts EXCEPT ![contractId].state = "Disputed"]
  /\ UNCHANGED <<variant, extVars, contractCount, roleVars, moneyVars, disputeVars>>

resolveDisputeV1Err(sender, contractId) ==
  LET c == contracts[contractId] IN
  IF ~InList(sender, c.arbitrators) THEN "Only arbitrator can resolve dispute"
  ELSE IF c.state # "Disputed" THEN "Contract not disputed"
  ELSE OK

resolveDisputeV1(sender, contractId, athleteFavor) ==
  /\ variant = "address"
  /\ resolveDisputeV1Err(sender, contractId) = OK
  /\ contracts' = [contracts EXCEPT ![contractId].state =
                     IF athleteFavor THEN "Active" ELSE "Terminated"]
  /\ UNCHANGED <<variant, extVars, contractCount, roleVars, moneyVars, disputeVars>>

updateContractV1Err(sender, contractId) ==
  LET c == contracts[contractId] IN
  IF ~(sender = c.athlete \/ sender = c.sponsor) THEN "Only athlete or sponsor can update"
  ELSE OK

\* PushUpdate that records the new document reference instead of the old one.
PushUpdateNewReference(contractId, newContractIPFSHash) ==
  /\ Len(contracts[contractId].updateHistory) < MaxUpdates
  /\ contracts' = [contracts EXCEPT
                     ![contractId].updateHistory = Append(@, newContractIPFSHash),
                     ![contractId].contractIPFSHash = newContractIPFSHash]

PushUpdate(contractId, newContractIPFSHash) ==
  /\ Len(contracts[contractId].updateHistory) < MaxUpdates
  /\ contracts' = [contracts EXCEPT
                     ![contractId].updateHistory = Append(@, contracts[contractId].contractIPFSHash),
                     ![contractId].contractIPFSHash = newContractIPFSHash]

updateContractV1(sender, contractId, newContractIPFSHash) ==
  /\ variant = "address"
  /\ updateContractV1Err(sender, contractId) = OK
  /\ PushUpdate(contractId, newContractIPFSHash)
  /\ UNCHANGED <<variant, extVars, contractCount, roleVars, moneyVars, disputeVars>>

(***************************************************************************)
(* Ledger, role-based variant (AthleteContract is AccessControl).          *)
(***************************************************************************)
createContractV2Err(sender, athlete, sponsor, startDate, endDate) ==
  IF ~(hasRole(ledgerRoles, ATHLETE_ROLE, athlete) \/ hasRole(ledgerRoles, AGENT_ROLE, sender))
    THEN "Unauthorized: Only athlete or agent can create"
  ELSE IF ~hasRole(ledgerRoles, SPONSOR_ROLE, sponsor) THEN "Sponsor must have SPONSOR_ROLE"
  ELSE IF ~(endDate > startDate) THEN "End date must be after start date"
  ELSE OK

createContractV2(sender, athlete, sponsor, contractIPFSHash, totalValue, startDate, endDate, paymentToken, arbitrators) ==
  /\ variant = "role"
  /\ createContractV2Err(sender, athlete, sponsor, startDate, endDate) = OK
  /\ StoreContract(athlete, sponsor, contractIPFSHash, totalValue, startDate, endDate, paymentToken, arbitrators)
  /\ UNCHANGED <<variant, extVars, roleVars, moneyVars, disputeVars>>

\* addMilestonesV2Err without the final requirement on the sum of the batch, as
\* if the milestones pushed by the loop stayed when that requirement fails.
addMilestonesV2ErrNoSumCheck(sender, contractId, descLen, amounts, deadlineLen) ==
  LET c == contracts[contractId] IN
  IF ~(sender = c.athlete \/ sender = c.sponsor \/ hasRole(ledgerRoles, AGENT_ROLE, sender))
    THEN "Unauthorized"
  ELSE IF c.state # "Draft" THEN "Contract not in draft state"
  ELSE IF ~(descLen = Len(amounts) /\ Len(amounts) = deadlineLen) THEN "Arrays length mismatch"
  ELSE OK

addMilestonesV2Err(sender, contractId, descLen, amounts, deadlineLen) ==
  LET c == contracts[contractId] IN
  IF ~(sender = c.athlete \/ sender = c.sponsor \/ hasRole(ledgerRoles, AGENT_ROLE, sender))
    THEN "Unauthorized"
  ELSE IF c.state # "Draft" THEN "Contract not in draft state"
  ELSE IF ~(descLen = Len(amounts) /\ Len(amounts) = deadlineLen) THEN "Arrays length mismatch"
  ELSE IF SumAmounts(amounts) # c.totalValue THEN "Total milestone amounts must match contract value"
  ELSE OK

addMilestonesV2(sender, contractId, descLen, amounts, deadlineLen) ==
  /\ variant = "role"
  /\ addMilestonesV2Err(sender, contractId, descLen, amounts, deadlineLen) = OK
  /\ PushMilestones(contractId, amounts)
  /\ UNCHANGED <<variant, extVars, contractCount, roleVars, moneyVars, disputeVars>>

\* activateContractV2Err without the Draft-state requirement.
activateContractV2ErrAnyState(sender, contractId) ==
  LET c == contracts[contractId] IN
  IF sender # c.sponsor THEN "Only sponsor can activate contract"
  ELSE IF ~(Len(c.milestones) > 0) THEN "Contract must have milestones"
  ELSE IF c.paymentToken # ZERO /\ ~(allowance[c.sponsor] >= c.totalValue)
    THEN "Insufficient token allowance"
  ELSE OK

activateContractV2Err(sender, contractId) ==
  LET c == contracts[contractId] IN
  IF sender # c.sponsor THEN "Only sponsor can activate contract"
  ELSE IF c.state # "Draft" THEN "Contract not in draft state"
  ELSE IF ~(Len(c.milestones) > 0) THEN "Contract must have milestones"
  ELSE IF c.paymentToken # ZERO /\ ~(allowance[c.sponsor] >= c.totalValue)
    THEN "Insufficient token allowance"
  ELSE OK

activateContractV2(sender, contractId) ==
  /\ variant = "role"
  /\ activateContractV2Err(sender, contractId) = OK
  /\ contracts' = [contracts EXCEPT ![contractId].state = "Active"]
  /\ UNCHANGED <<variant, extVars, contractCount, roleVars, moneyVars, disputeVars>>

\* submitMilestoneErr without the requirement that the milestone is Pending.
submitMilestoneErrAnyStatus(sender, contractId, milestoneIndex) ==
  LET c == contracts[contractId] IN
  IF sender # c.athlete THEN "Only athlete can submit milestone"
  ELSE IF c.state # "Active" THEN "Contract not active"
  ELSE IF ~(milestoneIndex < Len(c.milestones)) THEN "Invalid milestone index"
  ELSE OK

submitMilestoneErr(sender, contractId, milestoneIndex) ==
  LET c == contracts[contractId] IN
  IF sender # c.athlete THEN "Only athlete can submit milestone"
  ELSE IF c.state # "Active" THEN "Contract not active"
  ELSE IF ~(milestoneIndex < Len(c.milestones)) THEN "Invalid milestone index"
  ELSE IF c.milestones[milestoneIndex + 1].status # "Pending" THEN "Milestone not pending"
  ELSE OK

submitMilestone(sender, contractId, milestoneIndex, evidenceIPFSHash) ==
  /\ variant = "role"
  /\ submitMilestoneErr(sender, contractId, milestoneIndex) = OK
  /\ contracts' = [contracts EXCEPT ![contractId].milestones[milestoneIndex + 1] =
                     [@ EXCEPT !.evidence = evidenceIPFSHash, !.status = "Completed"]]
  /\ UNCHANGED <<variant, extVars, contractCount, roleVars, moneyVars, disputeVars>>

\* approveMilestoneErr without require(!milestone.paid).
approveMilestoneErrNoPaidCheck(sender, contractId, milestoneIndex) ==
  LET c == contracts[contractId] IN
  IF locked THEN "ReentrancyGuard: reentrant call"
  ELSE IF sender # c.sponsor THEN "Only sponsor can approve milestone"
  ELSE IF c.state # "Active" THEN "Contract not active"
  ELSE IF ~(milestoneIndex < Len(c.milestones)) THEN "Invalid milestone index"
  ELSE IF c.milestones[milestoneIndex + 1].status # "Completed" THEN "Milestone not completed"
  ELSE IF c.paymentToken = ZERO
    THEN IF ~(ethBal[LEDGER] >= c.milestones[milestoneIndex + 1].amount /\ CanReceiveEth(c.athlete))
           THEN "ETH transfer reverted"
         ELSE OK
    ELSE IF ~TransferFromOk(c.sponsor, c.milestones[milestoneIndex + 1].amount) THEN "Token transfer failed"
         ELSE OK

approveMilestoneErr(sender, contractId, milestoneIndex) ==
  LET c == contracts[contractId] IN
  IF locked THEN "ReentrancyGuard: reentrant call"
  ELSE IF sender # c.sponsor THEN "Only sponsor can approve milestone"
  ELSE IF c.state # "Active" THEN "Contract not active"
  ELSE IF ~(milestoneIndex < Len(c.milestones)) THEN "Invalid milestone index"
  ELSE IF c.milestones[milestoneIndex + 1].status # "Completed" THEN "Milestone not completed"
  ELSE IF c.milestones[milestoneIndex + 1].paid THEN "Payment already released"
  ELSE IF c.paymentToken = ZERO
    THEN IF ~(ethBal[LEDGER] >= c.milestones[milestoneIndex + 1].amount /\ CanReceiveEth(c.athlete))
           THEN "ETH transfer reverted"
         ELSE OK
    ELSE IF ~TransferFromOk(c.sponsor, c.milestones[milestoneIndex + 1].amount) THEN "Token transfer failed"
         ELSE OK

AllPaid(ms) == \A i \in 1 .. Len(ms) : ms[i].paid

approveMilestone(sender, contractId, milestoneIndex) ==
  LET c == contracts[contractId]
      amount == c.milestones[milestoneIndex + 1].amount
      paidMs == [c.milestones EXCEPT ![milestoneIndex + 1].paid = TRUE] IN
  /\ variant = "role"
  /\ approveMilestoneErr(sender, contractId, milestoneIndex) = OK
  /\ IF c.paymentToken = ZERO
       THEN /\ ethBal' = Pay(ethBal, LEDGER, c.athlete, amount)
            /\ UNCHANGED <<tokBal, allowance>>
       ELSE /\ tokBal' = Pay(tokBal, c.sponsor, c.athlete, amount)
            /\ allowance' = [allowance EXCEPT ![c.sponsor] = @ - amount]
            /\ UNCHANGED ethBal
  /\ paymentReleased' = [paymentReleased EXCEPT ![contractId][milestoneIndex + 1] = @ + 1]
  /\ contracts' = [contracts EXCEPT ![contractId] =
                     [@ EXCEPT !.milestones = paidMs,
                               !.state = IF AllPaid(paidMs) THEN "Completed" ELSE @]]
  /\ UNCHANGED <<variant, extVars, contractCount, roleVars, disputeVars>>

\* approveMilestone of a token contract up to its external transfer: the lock
\* is taken, paid is written, the value is on its way, and the token contract
\* (and whoever it notifies) has control before the handler goes on.  The
\* native-currency path uses transfer(), whose 2300 gas stipend leaves the
\* recipient no room for a call back, so it has no such window.
approveMilestoneBegin(sender, contractId, milestoneIndex) ==
  LET c == contracts[contractId]
      amount == c.milestones[milestoneIndex + 1].amount IN
  /\ variant = "role"
  /\ approveMilestoneErr(sender, contractId, milestoneIndex) = OK
  /\ c.paymentToken # ZERO
  /\ tokBal' = Pay(tokBal, c.sponsor, c.athlete, amount)
  /\ allowance' = [allowance EXCEPT ![c.sponsor] = @ - amount]
  /\ UNCHANGED ethBal
  /\ contracts' = [contracts EXCEPT ![contractId].milestones[milestoneIndex + 1].paid = TRUE]
  /\ locked' = TRUE
  /\ frame' = [kind |-> "release", contractId |-> contractId, milestoneIndex |-> milestoneIndex]
  /\ UNCHANGED <<variant, contractCount, paymentReleased, roleVars, disputeVars, nftVars, registryVars>>

\* The rest of approveMilestone after the transfer returned: the event and
\* the all-paid loop.
approveMilestoneEnd ==
  /\ variant = "role"
  /\ frame # NoFrame
  /\ paymentReleased' = [paymentReleased EXCEPT ![frame.contractId][frame.milestoneIndex + 1] = @ + 1]
  /\ contracts' = [contracts EXCEPT ![frame.contractId].state =
                     IF AllPaid(contracts[frame.contractId].milestones) THEN "Completed" ELSE @]
  /\ locked' = FALSE
  /\ frame' = NoFrame
  /\ UNCHANGED <<variant, contractCount, ethBal, tokBal, allowance, roleVars, disputeVars,
                 nftVars, registryVars>>

\* rejectMilestoneErr without the requirement that the milestone is unpaid.
rejectMilestoneErrNoPaidCheck(sender, contractId, milestoneIndex) ==
  LET c == contracts[contractId] IN
  IF sender # c.sponsor THEN "Only sponsor can reject milestone"
  ELSE IF c.state # "Active" THEN "Contract not active"
  ELSE IF ~(milestoneIndex < Len(c.milestones)) THEN "Invalid milestone index"
  ELSE IF c.milestones[milestoneIndex + 1].status # "Completed" THEN "Milestone not completed"
  ELSE OK

rejectMilestoneErr(sender, contractId, milestoneIndex) ==
  LET c == contracts[contractId] IN
  IF sender # c.sponsor THEN "Only sponsor can reject milestone"
  ELSE IF c.state # "Active" THEN "Contract not active"
  ELSE IF ~(milestoneIndex < Len(c.milestones)) THEN "Invalid milestone index"
  ELSE IF c.milestones[milestoneIndex + 1].status # "Completed" THEN "Milestone not completed"
  ELSE IF c.milestones[milestoneIndex + 1].paid THEN "Payment already released"
  ELSE OK

rejectMilestone(sender, contractId, milestoneIndex) ==
  /\ variant = "role"
  /\ rejectMilestoneErr(sender, contractId, milestoneIndex) = OK
  /\ contracts' = [contracts EXCEPT ![contractId].milestones[milestoneIndex + 1].status = "Rejected"]
  /\ UNCHANGED <<variant, extVars, contractCount, roleVars, moneyVars, disputeVars>>

raiseDisputeV2(sender, contractId) ==
  /\ variant = "role"
  /\ raiseDisputeErr(sender, contractId) = OK
  /\ contracts' = [contracts EXCEPT ![contractId].state = "Disputed"]
  /\ UNCHANGED <<variant, extVars, contractCount, roleVars, moneyVars, disputeVars>>

resolveDisputeV2Err(sender, contractId) ==
  LET c == contracts[contractId] IN
  IF ~(InList(sender, c.arbitrators) \/ hasRole(ledgerRoles, ARBITRATOR_ROLE, sender))
    THEN "Only arbitrator can resolve dispute"
  ELSE IF c.state # "Disputed" THEN "Contract not disputed"
  ELSE OK

resolveDisputeV2(sender, contractId, athleteFavor) ==
  /\ variant = "role"
  /\ resolveDisputeV2Err(sender, contractId) = OK
  /\ contracts' = [contracts EXCEPT ![contractId].state =
                     IF athleteFavor THEN "Active" ELSE "Terminated"]
  /\ UNCHANGED <<variant, extVars, contractCount, roleVars, moneyVars, disputeVars>>

updateContractV2Err(sender, contractId) ==
  LET c == contracts[contractId] IN
  IF ~(sender = c.athlete \/ sender = c.sponsor \/ hasRole(ledgerRoles, AGENT_ROLE, sender))
    THEN "Unauthorized"
  ELSE OK

updateContractV2(sender, contractId, newContractIPFSHash) ==
  /\ variant = "role"
  /\ updateContractV2Err(sender, contractId) = OK
  /\ PushUpdate(contractId, newContractIPFSHash)
  /\ UNCHANGED <<variant, extVars, contractCount, roleVars, moneyVars, disputeVars>>

(***************************************************************************)
(* Factory of the role-based deployment: registerUser grants the role on   *)
(* the Ledger and on the Factory.                                          *)
(***************************************************************************)
\* registerUserErr without the requirement that the user lacks the role.
registerUserErrNoRoleCheck(sender, user, role) ==
  IF ~hasRole(factoryRoles, DEFAULT_ADMIN_ROLE, sender) THEN "Admin role required"
  ELSE IF ~hasRole(ledgerRoles, DEFAULT_ADMIN_ROLE, FACTORY) THEN "AccessControl: missing role"
  ELSE OK

registerUserErr(sender, user, role) ==
  IF ~hasRole(factoryRoles, DEFAULT_ADMIN_ROLE, sender) THEN "Admin role required"
  ELSE IF hasRole(factoryRoles, role, user) THEN "User already has this role"
  ELSE IF ~hasRole(ledgerRoles, DEFAULT_ADMIN_ROLE, FACTORY) THEN "AccessControl: missing role"
  ELSE OK

registerUser(sender, user, role, name) ==
  /\ variant = "role"
  /\ registerUserErr(sender, user, role) = OK
  /\ ledgerRoles' = ledgerRoles \cup {<<user, role>>}
  /\ factoryRoles' = factoryRoles \cup {<<user, role>>}
  /\ userInfo' = [userInfo EXCEPT ![user].name = name]
  /\ Len(userRoles[user]) < MaxUserRoles
  /\ userRoles' = [userRoles EXCEPT ![user] = Append(@, role)]
  /\ UNCHANGED <<variant, callVars, nftVars, isRegistered, ledgerVars, moneyVars, disputeVars, drRoles>>

(***************************************************************************)
(* The payment token (an ERC20 outside the repository): the sponsor sets   *)
(* the allowance of the Ledger.                                            *)
(***************************************************************************)
tokenApprove(owner, amount) ==
  /\ allowance[owner] # amount
  /\ allowance' = [allowance EXCEPT ![owner] = amount]
  /\ UNCHANGED <<variant, extVars, ledgerVars, roleVars, disputeVars, ethBal, tokBal, paymentReleased>>

(***************************************************************************)
(* DisputeResolution.  Its calls into the Ledger are made with the         *)
(* DisputeResolution contract as msg.sender.                               *)
(***************************************************************************)
grantRole(sender, role, account) ==
  /\ hasRole(drRoles, DEFAULT_ADMIN_ROLE, sender)
  /\ ~hasRole(drRoles, role, account)
  /\ drRoles' = drRoles \cup {<<account, role>>}
  /\ UNCHANGED <<variant, extVars, ledgerVars, moneyVars, disputeVars, ledgerRoles, factoryRoles>>

LedgerResolveDisputeErr(sender, contractId) ==
  IF variant = "address" THEN resolveDisputeV1Err(sender, contractId)
  ELSE resolveDisputeV2Err(sender, contractId)

\* createDisputeErr without the outcome of the nested raiseDispute, as if the
\* dispute record stayed when the Ledger rejects the call.
createDisputeErrNoLedgerCall(sender, contractId) ==
  LET c == contracts[contractId] IN
  IF ~(sender = c.athlete \/ sender = c.sponsor) THEN "Only athlete or sponsor can create dispute"
  ELSE IF c.state = "Disputed" THEN "Dispute already exists"
  ELSE IF c.state = "Terminated" THEN "Contract already terminated"
  ELSE OK

createDisputeErr(sender, contractId) ==
  LET c == contracts[contractId] IN
  IF ~(sender = c.athlete \/ sender = c.sponsor) THEN "Only athlete or sponsor can create dispute"
  ELSE IF c.state = "Disputed" THEN "Dispute already exists"
  ELSE IF c.state = "Terminated" THEN "Contract already terminated"
  ELSE raiseDisputeErr(DR, contractId)

createDispute(sender, contractId) ==
  /\ createDisputeErr(sender, contractId) = OK
  /\ disputeCount \in DisputeIds
  /\ contracts' = [contracts EXCEPT ![contractId].state = "Disputed"]
  /\ disputes' = [disputes EXCEPT ![disputeCount] =
                    [@ EXCEPT !.contractId = contractId, !.initiator = sender,
                              !.resolved = FALSE]]
  /\ disputeIdOf' = [disputeIdOf EXCEPT ![contractId] = disputeCount]
  /\ disputeCount' = disputeCount + 1
  /\ UNCHANGED <<variant, extVars, contractCount, roleVars, moneyVars>>

\* The dispute record as voteOnDispute leaves it before the majority check.
RecordVote(dispute, sender, athleteFavor) ==
  [dispute EXCEPT !.arbitratorVotes[sender] = athleteFavor,
                  !.votedArbitrators = Append(@, sender),
                  !.athleteVotes = IF athleteFavor THEN @ + 1 ELSE @,
                  !.sponsorVotes = IF athleteFavor THEN @ ELSE @ + 1]

\* HasMajority with "at least half" in place of "more than half".
HasMajorityAtHalf(dispute) ==
  \/ dispute.athleteVotes >= (Len(dispute.votedArbitrators) + 1) \div 2
  \/ dispute.sponsorVotes >= (Len(dispute.votedArbitrators) + 1) \div 2

HasMajority(dispute) ==
  \/ dispute.athleteVotes > Len(dispute.votedArbitrators) \div 2
  \/ dispute.sponsorVotes > Len(dispute.votedArbitrators) \div 2

\* The internal resolveDispute: the outcome it computes from the tallies.
resolveDisputeOutcome(dispute) == dispute.athleteVotes > dispute.sponsorVotes

\* voteOnDisputeErr without the loop over votedArbitrators.
voteOnDisputeErrNoVoterCheck(sender, disputeId, athleteFavor) ==
  LET dispute == disputes[disputeId] IN
  IF ~hasRole(drRoles, ARBITRATOR_ROLE, sender) THEN "Only arbitrator can vote"
  ELSE IF dispute.resolved THEN "Dispute already resolved"
  ELSE IF HasMajority(RecordVote(dispute, sender, athleteFavor))
    THEN LedgerResolveDisputeErr(DR, dispute.contractId)
  ELSE OK

\* voteOnDisputeErr without the requirement that the caller is an arbitrator.
voteOnDisputeErrNoRoleCheck(sender, disputeId, athleteFavor) ==
  LET dispute == disputes[disputeId] IN
  IF dispute.resolved THEN "Dispute already resolved"
  ELSE IF InList(sender, dispute.votedArbitrators) THEN "Arbitrator already voted"
  ELSE IF HasMajority(RecordVote(dispute, sender, athleteFavor))
    THEN LedgerResolveDisputeErr(DR, dispute.contractId)
  ELSE OK

voteOnDisputeErr(sender, disputeId, athleteFavor) ==
  LET dispute == disputes[disputeId] IN
  IF ~hasRole(drRoles, ARBITRATOR_ROLE, sender) THEN "Only arbitrator can vote"
  ELSE IF dispute.resolved THEN "Dispute already resolved"
  ELSE IF InList(sender, dispute.votedArbitrators) THEN "Arbitrator already voted"
  ELSE IF HasMajority(RecordVote(dispute, sender, athleteFavor))
    THEN LedgerResolveDisputeErr(DR, dispute.contractId)
  ELSE OK

voteOnDispute(sender, disputeId, athleteFavor) ==
  LET voted == RecordVote(disputes[disputeId], sender, athleteFavor)
      outcome == resolveDisputeOutcome(voted) IN
  /\ sender \in Arbitrators
  /\ voteOnDisputeErr(sender, disputeId, athleteFavor) = OK
  /\ IF HasMajority(voted)
       THEN /\ disputes' = [disputes EXCEPT ![disputeId] =
                              [voted EXCEPT !.resolved = TRUE, !.athleteFavor = outcome]]
            /\ contracts' = [contracts EXCEPT ![voted.contractId].state =
                               IF outcome THEN "Active" ELSE "Terminated"]
       ELSE /\ disputes' = [disputes EXCEPT ![disputeId] = voted]
            /\ UNCHANGED contracts
  /\ UNCHANGED <<variant, extVars, contractCount, roleVars, moneyVars, disputeCount, disputeIdOf>>

\* forceResolveDisputeErr without require(!dispute.resolved).
forceResolveDisputeErrNoResolvedCheck(sender, disputeId) ==
  LET dispute == disputes[disputeId] IN
  IF ~hasRole(drRoles, DEFAULT_ADMIN_ROLE, sender) THEN "Only admin can force resolve"
  ELSE LedgerResolveDisputeErr(DR, dispute.contractId)

forceResolveDisputeErr(sender, disputeId) ==
  LET dispute == disputes[disputeId] IN
  IF ~hasRole(drRoles, DEFAULT_ADMIN_ROLE, sender) THEN "Only admin can force resolve"
  ELSE IF dispute.resolved THEN "Dispute already resolved"
  ELSE LedgerResolveDisputeErr(DR, dispute.contractId)

forceResolveDispute(sender, disputeId, athleteFavor) ==
  /\ forceResolveDisputeErr(sender, disputeId) = OK
  /\ disputes' = [disputes EXCEPT ![disputeId] =
                    [@ EXCEPT !.resolved = TRUE, !.athleteFavor = athleteFavor]]
  /\ contracts' = [contracts EXCEPT ![disputes[disputeId].contractId].state =
                     IF athleteFavor THEN "Active" ELSE "Terminated"]
  /\ UNCHANGED <<variant, extVars, contractCount, roleVars, moneyVars, disputeCount, disputeIdOf>>

(***************************************************************************)
(* The transactions of the Ledger specification: every Ledger entry point  *)
(* of both variants, driven by every caller, with the payment token's      *)
(* approve.  The arbitration engine is not deployed against this Ledger.   *)
(***************************************************************************)
CreateContractV1With(athletes, values, tokens, lists) ==
  \E athlete \in athletes, sponsor \in SponsorChoices, hash \in CreateDocuments,
     totalValue \in values, dates \in DateChoices, paymentToken \in tokens, arbitrators \in lists :
       createContractV1(athlete, sponsor, hash, totalValue, dates[1], dates[2], paymentToken, arbitrators)

CreateContractV2With(athletes, values, tokens, lists) ==
  \E sender \in EOAs, athlete \in athletes, sponsor \in SponsorChoices, hash \in CreateDocuments,
     totalValue \in values, dates \in DateChoices, paymentToken \in tokens, arbitrators \in lists :
       createContractV2(sender, athlete, sponsor, hash, totalValue, dates[1], dates[2], paymentToken, arbitrators)

AddMilestonesV1With(batches) ==
  \E sender \in EOAs, contractId \in ContractIds, descLen \in BatchLens, amounts \in batches,
     deadlineLen \in BatchLens :
       addMilestonesV1(sender, contractId, descLen, amounts, deadlineLen)

AddMilestonesV2With(batches) ==
  \E sender \in EOAs, contractId \in ContractIds, descLen \in BatchLens, amounts \in batches,
     deadlineLen \in BatchLens :
       addMilestonesV2(sender, contractId, descLen, amounts, deadlineLen)

ReleaseMilestonePaymentWith(values) ==
  \E sender \in EOAs, contractId \in ContractIds, milestoneIndex \in 0 .. MaxMilestones,
     msgValue \in values :
       releaseMilestonePayment(sender, contractId, milestoneIndex, msgValue)

DoCreateContractV1 == CreateContractV1With(AthleteChoices, Amounts, TokenChoices, LedgerArbitratorLists)

DoCreateContractV2 == CreateContractV2With(AthleteChoices, Amounts, TokenChoices, LedgerArbitratorLists)

DoAddMilestonesV1 == AddMilestonesV1With(Batches)

DoAddMilestonesV2 == AddMilestonesV2With(Batches)

DoActivateContractV1 ==
  \E sender \in EOAs, contractId \in ContractIds : activateContractV1(sender, contractId)

DoActivateContractV2 ==
  \E sender \in EOAs, contractId \in ContractIds : activateContractV2(sender, contractId)

DoCompleteMilestone ==
  \E sender \in EOAs, contractId \in ContractIds, milestoneIndex \in 0 .. MaxMilestones :
       completeMilestone(sender, contractId, milestoneIndex, "evidence")

DoSubmitMilestone ==
  \E sender \in EOAs, contractId \in ContractIds, milestoneIndex \in 0 .. MaxMilestones :
       submitMilestone(sender, contractId, milestoneIndex, "evidence")

DoReleaseMilestonePayment == ReleaseMilestonePaymentWith(Amounts)

DoApproveMilestone ==
  \E sender \in EOAs, contractId \in ContractIds, milestoneIndex \in 0 .. MaxMilestones :
       approveMilestone(sender, contractId, milestoneIndex)

DoRejectMilestone ==
  \E sender \in EOAs, contractId \in ContractIds, milestoneIndex \in 0 .. MaxMilestones :
       rejectMilestone(sender, contractId, milestoneIndex)

DoRaiseDisputeV1 ==
  \E sender \in EOAs, contractId \in ContractIds : raiseDisputeV1(sender, contractId)

DoRaiseDisputeV2 ==
  \E sender \in EOAs, contractId \in ContractIds : raiseDisputeV2(sender, contractId)

DoResolveDisputeV1 ==
  \E sender \in EOAs, contractId \in ContractIds, athleteFavor \in BOOLEAN :
       resolveDisputeV1(sender, contractId, athleteFavor)

DoResolveDisputeV2 ==
  \E sender \in EOAs, contractId \in ContractIds, athleteFavor \in BOOLEAN :
       resolveDisputeV2(sender, contractId, athleteFavor)

DoUpdateContractV1 ==
  \E sender \in EOAs, contractId \in ContractIds, hash \in UpdateDocuments :
       updateContractV1(sender, contractId, hash)

DoUpdateContractV2 ==
  \E sender \in EOAs, contractId \in ContractIds, hash \in UpdateDocuments :
       updateContractV2(sender, contractId, hash)

DoTokenApprove ==
  \E amount \in Amounts : tokenApprove("spo", amount)

Next ==
  \/ DoCreateContractV1
  \/ DoCreateContractV2
  \/ DoAddMilestonesV1
  \/ DoAddMilestonesV2
  \/ DoActivateContractV1
  \/ DoActivateContractV2
  \/ DoCompleteMilestone
  \/ DoSubmitMilestone
  \/ DoReleaseMilestonePayment
  \/ DoApproveMilestone
  \/ DoRejectMilestone
  \/ DoRaiseDisputeV1
  \/ DoRaiseDisputeV2
  \/ DoResolveDisputeV1
  \/ DoResolveDisputeV2
  \/ DoUpdateContractV1
  \/ DoUpdateContractV2
  \/ DoTokenApprove

Spec == Init /\ [][Next]_vars

(***************************************************************************)
(* The re-entrancy specification: a payment release is two steps, and       *)
(* between them (while the external transfer is in progress) the recipient *)
(* or the token contract may call any entry point of the Ledger.           *)
(***************************************************************************)
DoReleaseMilestonePaymentBegin ==
  \E sender \in EOAs, contractId \in ContractIds, milestoneIndex \in 0 .. MaxMilestones,
     msgValue \in Amounts :
       releaseMilestonePaymentBegin(sender, contractId, milestoneIndex, msgValue)

DoApproveMilestoneBegin ==
  \E sender \in EOAs, contractId \in ContractIds, milestoneIndex \in 0 .. MaxMilestones :
       approveMilestoneBegin(sender, contractId, milestoneIndex)

NextReentrancy ==
  \/ DoCreateContractV1
  \/ DoCreateContractV2
  \/ DoAddMilestonesV1
  \/ DoAddMilestonesV2
  \/ DoActivateContractV1
  \/ DoActivateContractV2
  \/ DoCompleteMilestone
  \/ DoSubmitMilestone
  \/ DoReleaseMilestonePayment
  \/ DoApproveMilestone
  \/ DoRejectMilestone
  \/ DoRaiseDisputeV1
  \/ DoRaiseDisputeV2
  \/ DoResolveDisputeV1
  \/ DoResolveDisputeV2
  \/ DoTokenApprove
  \/ DoReleaseMilestonePaymentBegin
  \/ releaseMilestonePaymentEnd
  \/ DoApproveMilestoneBegin
  \/ approveMilestoneEnd

SpecReentrancy == Init /\ [][NextReentrancy]_vars

(***************************************************************************)
(* The transactions of the arbitration specification: DisputeResolution    *)
(* deployed against the Ledger (either variant), the Ledger's lifecycle    *)
(* entry points, and the role grants.  The contracts are created with      *)
(* total value 0 in the token asset and milestones of amount 0, so that    *)
(* every payment goes through and the balances stay as deployed.           *)
(***************************************************************************)
ArbCreateContractV1 == CreateContractV1With(AthleteChoices, {0}, {TOKEN}, ArbitratorLists)

ArbCreateContractV2 == CreateContractV2With(AthleteChoices, {0}, {TOKEN}, ArbitratorLists)

ArbAddMilestonesV1 == AddMilestonesV1With({<<0>>})

ArbAddMilestonesV2 == AddMilestonesV2With({<<0>>})

ArbReleaseMilestonePayment == ReleaseMilestonePaymentWith({0})

DoRegisterUser ==
  \E sender \in EOAs, reg \in Registrations : registerUser(sender, reg[1], reg[2], DeployedName)

DoGrantRole ==
  \E sender \in EOAs, account \in Arbitrators : grantRole(sender, ARBITRATOR_ROLE, account)

DoCreateDispute ==
  \E sender \in EOAs, contractId \in ContractIds : createDispute(sender, contractId)

DoVoteOnDispute ==
  \E sender \in EOAs, disputeId \in DisputeIds, athleteFavor \in BOOLEAN :
       voteOnDispute(sender, disputeId, athleteFavor)

DoForceResolveDispute ==
  \E sender \in EOAs, disputeId \in DisputeIds, athleteFavor \in BOOLEAN :
       forceResolveDispute(sender, disputeId, athleteFavor)

NextArbitration ==
  \/ ArbCreateContractV1
  \/ ArbCreateContractV2
  \/ ArbAddMilestonesV1
  \/ ArbAddMilestonesV2
  \/ DoActivateContractV1
  \/ DoActivateContractV2
  \/ DoCompleteMilestone
  \/ DoSubmitMilestone
  \/ ArbReleaseMilestonePayment
  \/ DoApproveMilestone
  \/ DoRejectMilestone
  \/ DoRaiseDisputeV1
  \/ DoRaiseDisputeV2
  \/ DoResolveDisputeV1
  \/ DoResolveDisputeV2
  \/ DoRegisterUser
  \/ DoGrantRole
  \/ DoCreateDispute
  \/ DoVoteOnDispute
  \/ DoForceResolveDispute

SpecArbitration == Init /\ [][NextArbitration]_vars

(***************************************************************************)
(* Properties.                                                             *)
(***************************************************************************)
Created(c) == c < contractCount

MilestoneIdx(c) == 1 .. Len(contracts[c].milestones)

\* Every address that can be msg.sender of a Ledger call.
LedgerSenders == EOAs \cup {DR}

\* C1: the paid flag of a milestone goes from false to true at most once and
\* never back; on a milestone that is already paid every payment release
\* (approveMilestone, releaseMilestonePayment) is rejected, and no step emits
\* another PaymentReleased for it, so exactly one release is recorded for a
\* paid milestone and none for an unpaid one.
C1_PaidLatchesOnce ==
  /\ [](\A c \in ContractIds : \A i \in MilestoneIdx(c) :
          /\ paymentReleased[c][i] = IF contracts[c].milestones[i].paid THEN 1 ELSE 0
          /\ contracts[c].milestones[i].paid =>
               \A sender \in LedgerSenders, msgValue \in Amounts :
                 /\ approveMilestoneErr(sender, c, i - 1) # OK
                 /\ releaseMilestonePaymentErr(sender, c, i - 1, msgValue) # OK)
  /\ [][\A c \in ContractIds : \A i \in MilestoneIdx(c) :
          contracts[c].milestones[i].paid =>
            /\ contracts'[c].milestones[i].paid
            /\ paymentReleased'[c][i] = paymentReleased[c][i]]_vars

\* C1 witness: a milestone of positive amount has been paid while its contract
\* is still Active and the milestone still Completed, so that only the paid
\* flag stands between the sponsor and a second release.
C1_Witness ==
  \E c \in ContractIds : \E i \in MilestoneIdx(c) :
    /\ contracts[c].state = "Active"
    /\ contracts[c].milestones[i].paid
    /\ contracts[c].milestones[i].status = "Completed"
    /\ contracts[c].milestones[i].amount > 0
    /\ paymentReleased[c][i] = 1

\* C2: after every successful addMilestones on a created contract (any number
\* of them, all made in Draft) the amounts of all milestones stored for the
\* contract add up to the contract's totalValue.
C2_SumEqualsTotalValue ==
  [][\A c \in ContractIds :
       (Created(c) /\ contracts'[c].milestones # contracts[c].milestones) =>
          SumMilestones(contracts'[c].milestones) = contracts'[c].totalValue]_vars

ActivateContractErr(sender, c) ==
  IF variant = "address" THEN activateContractV1Err(sender, c)
  ELSE activateContractV2Err(sender, c)

\* The callers activateContract accepts: athlete or sponsor in the
\* address-based variant, the sponsor in the role-based variant.
MayActivate(sender, c) ==
  IF variant = "address"
    THEN sender = contracts[c].athlete \/ sender = contracts[c].sponsor
    ELSE sender = contracts[c].sponsor

\* The allowance precondition of the role-based activateContract.
AllowanceCovers(c) ==
  (variant = "role" /\ contracts[c].paymentToken # ZERO) =>
     allowance[contracts[c].sponsor] >= contracts[c].totalValue

ActivatedAtMostOnce ==
  [][\A c \in ContractIds :
       contracts[c].state # "Draft" => contracts'[c].state # "Draft"]_vars

\* C3 as stated: activateContract fails on a contract without milestones,
\* succeeds for every authorized caller on a Draft contract with at least one
\* milestone, and fails on a contract that has left Draft, which is never
\* Draft again.
C3_Original ==
  /\ [](\A c \in ContractIds : \A sender \in LedgerSenders :
          /\ Len(contracts[c].milestones) = 0 => ActivateContractErr(sender, c) # OK
          /\ contracts[c].state # "Draft" => ActivateContractErr(sender, c) # OK
          /\ (contracts[c].state = "Draft" /\ Len(contracts[c].milestones) > 0
                /\ MayActivate(sender, c)) => ActivateContractErr(sender, c) = OK)
  /\ ActivatedAtMostOnce

\* C3 amended: as C3, but on a Draft contract with at least one milestone an
\* authorized caller succeeds exactly when, in the role-based variant with a
\* token as payment asset, the sponsor's allowance to the Ledger covers
\* totalValue (no condition for native currency or in the address-based variant).
C3_ActivateOnce ==
  /\ [](\A c \in ContractIds : \A sender \in LedgerSenders :
          /\ Len(contracts[c].milestones) = 0 => ActivateContractErr(sender, c) # OK
          /\ contracts[c].state # "Draft" => ActivateContractErr(sender, c) # OK
          /\ (contracts[c].state = "Draft" /\ Len(contracts[c].milestones) > 0
                /\ MayActivate(sender, c)) =>
                  (ActivateContractErr(sender, c) = OK <=> AllowanceCovers(c)))
  /\ ActivatedAtMostOnce

\* C3 witness: a token contract of positive value of the role-based variant
\* has been activated and has moved on to Disputed, where a further
\* activateContract by the sponsor is rejected.
C3_Witness ==
  \E c \in ContractIds :
    /\ variant = "role"
    /\ contracts[c].paymentToken = TOKEN
    /\ contracts[c].totalValue > 0
    /\ Len(contracts[c].milestones) > 0
    /\ contracts[c].state = "Disputed"
    /\ ActivateContractErr(contracts[c].sponsor, c) = "Contract not in draft state"

CreatedDispute(d) == d < disputeCount

OpenDispute(d) == CreatedDispute(d) /\ ~disputes[d].resolved

Registered(a) == hasRole(drRoles, ARBITRATOR_ROLE, a)

Voters(d) == {disputes[d].votedArbitrators[i] : i \in 1 .. Len(disputes[d].votedArbitrators)}

\* C4: on an Open dispute without votes, with all three arbitrators registered,
\* the first athleteFavor vote leaves the dispute Open, and the athleteFavor
\* vote of a second arbitrator then resolves it in favour of the athlete.
C4_ResolvedAtSecondVote ==
  /\ [][\A d \in DisputeIds : \A a \in Arbitrators :
          (/\ OpenDispute(d)
           /\ disputes[d].votedArbitrators = << >>
           /\ \A x \in Arbitrators : Registered(x)
           /\ voteOnDispute(a, d, TRUE)) => ~disputes'[d].resolved]_vars
  /\ [][\A d \in DisputeIds : \A a \in Arbitrators :
          (/\ OpenDispute(d)
           /\ Len(disputes[d].votedArbitrators) = 1
           /\ disputes[d].athleteVotes = 1
           /\ voteOnDispute(a, d, TRUE)) =>
              (disputes'[d].resolved /\ disputes'[d].athleteFavor)]_vars

\* C5: after the first vote (athleteFavor) on an Open dispute the sponsorFavor
\* vote of any other registered arbitrator is accepted, and a vote that leaves
\* the tallies evenly split leaves the dispute Open.
C5_EvenSplitStaysOpen ==
  /\ [][\A d \in DisputeIds : \A b \in Arbitrators :
          (/\ OpenDispute(d)
           /\ disputes[d].votedArbitrators = << >>
           /\ voteOnDispute(b, d, TRUE)) =>
              \A a \in Arbitrators \ {b} :
                Registered(a) => (voteOnDisputeErr(a, d, FALSE) = OK)']_vars
  /\ [][\A d \in DisputeIds : \A a \in Arbitrators, f \in BOOLEAN :
          (/\ OpenDispute(d)
           /\ voteOnDispute(a, d, f)
           /\ disputes'[d].athleteVotes = disputes'[d].sponsorVotes) =>
              ~disputes'[d].resolved]_vars

\* C6: createDispute called by the athlete or the sponsor of an Active contract
\* goes through, and a createDispute that goes through leaves the contract
\* Disputed and the new dispute Open with zero tallies and no voters.
C6_CreateDisputeSucceeds ==
  /\ [](\A c \in ContractIds : \A sender \in EOAs :
          (/\ Created(c)
           /\ contracts[c].state = "Active"
           /\ (sender = contracts[c].athlete \/ sender = contracts[c].sponsor)) =>
              createDisputeErr(sender, c) = OK)
  /\ [][\A c \in ContractIds : \A sender \in EOAs :
          createDispute(sender, c) =>
            /\ contracts'[c].state = "Disputed"
            /\ disputes'[disputeCount].contractId = c
            /\ ~disputes'[disputeCount].resolved
            /\ disputes'[disputeCount].athleteVotes = 0
            /\ disputes'[disputeCount].sponsorVotes = 0
            /\ disputes'[disputeCount].votedArbitrators = << >>]_vars

\* C7: no two Open disputes of the arbitration engine have the same contract id.
C7_OneOpenDisputePerContract ==
  \A d1 \in DisputeIds, d2 \in DisputeIds :
    (OpenDispute(d1) /\ OpenDispute(d2) /\ d1 # d2) =>
       disputes[d1].contractId # disputes[d2].contractId

\* C8: on a created dispute that is Resolved every voteOnDispute and every
\* forceResolveDispute is rejected, and no step changes its record (resolved
\* flag, outcome, tallies, voter list, recorded votes, contract id, initiator).
C8_ResolvedIsImmutable ==
  /\ [](\A d \in DisputeIds :
          (CreatedDispute(d) /\ disputes[d].resolved) =>
             \A sender \in EOAs, f \in BOOLEAN :
               /\ voteOnDisputeErr(sender, d, f) # OK
               /\ forceResolveDisputeErr(sender, d) # OK)
  /\ [][\A d \in DisputeIds :
          (CreatedDispute(d) /\ disputes[d].resolved) => disputes'[d] = disputes[d]]_vars

\* C8 witness: a created dispute is Resolved while its contract is Disputed
\* again and the Ledger would accept a resolution from the arbitration engine,
\* so that only the resolved flag keeps the admin and the arbitrators out.
C8_Witness ==
  \E d \in DisputeIds :
    /\ CreatedDispute(d)
    /\ disputes[d].resolved
    /\ Len(disputes[d].votedArbitrators) > 0
    /\ LedgerResolveDisputeErr(DR, disputes[d].contractId) = OK
    /\ \E a \in Arbitrators : Registered(a) /\ ~InList(a, disputes[d].votedArbitrators)

\* C9: an arbitrator in the voter list of a dispute is rejected by
\* voteOnDispute, no step changes the vote recorded for that arbitrator or
\* appends the arbitrator again, and the voter list holds no address twice
\* (the tallies add up to the number of distinct voters).
C9_OneVotePerArbitrator ==
  /\ [](\A d \in DisputeIds :
          /\ Cardinality(Voters(d)) = Len(disputes[d].votedArbitrators)
          /\ disputes[d].athleteVotes + disputes[d].sponsorVotes = Cardinality(Voters(d))
          /\ \A a \in Voters(d), f \in BOOLEAN : voteOnDisputeErr(a, d, f) # OK)
  /\ [][\A d \in DisputeIds : \A a \in Voters(d) :
          /\ disputes'[d].arbitratorVotes[a] = disputes[d].arbitratorVotes[a]
          /\ \A i \in 1 .. Len(disputes'[d].votedArbitrators) :
               disputes'[d].votedArbitrators[i] = a =>
                 (i <= Len(disputes[d].votedArbitrators) /\ disputes[d].votedArbitrators[i] = a)]_vars

\* C9 witness: an arbitrator who still holds the role has voted on a dispute
\* that is Open, and the second vote is rejected as "Arbitrator already voted".
C9_Witness ==
  \E d \in DisputeIds : \E a \in Arbitrators :
    /\ OpenDispute(d)
    /\ Registered(a)
    /\ InList(a, disputes[d].votedArbitrators)
    /\ voteOnDisputeErr(a, d, TRUE) = "Arbitrator already voted"

AllowedTransitions ==
  {<<"Draft", "Active">>, <<"Active", "Disputed">>, <<"Disputed", "Active">>,
   <<"Disputed", "Terminated">>, <<"Active", "Completed">>}

\* C10: every step that changes the lifecycle state of a contract takes it
\* along Draft->Active, Active->Disputed, Disputed->Active,
\* Disputed->Terminated or Active->Completed.
C10_LifecycleTransitions ==
  [][\A c \in ContractIds :
       contracts'[c].state # contracts[c].state =>
         <<contracts[c].state, contracts'[c].state>> \in AllowedTransitions]_vars

\* C10 witness: a contract on which a milestone payment was released while it
\* was Active has been through a dispute and is Terminated, where a further
\* raiseDispute by the sponsor is rejected.
C10_Witness ==
  \E c \in ContractIds :
    /\ Created(c)
    /\ contracts[c].state = "Terminated"
    /\ \E i \in MilestoneIdx(c) : contracts[c].milestones[i].paid
    /\ raiseDisputeErr(contracts[c].sponsor, c) # OK

\* C11: after every payment release that goes through the contract is
\* Completed exactly when all its milestones are paid, and Active otherwise.
C11_CompletedIffAllPaid ==
  [][\A c \in ContractIds :
       paymentReleased'[c] # paymentReleased[c] =>
         /\ (contracts'[c].state = "Completed") <=> AllPaid(contracts'[c].milestones)
         /\ ~AllPaid(contracts'[c].milestones) => contracts'[c].state = "Active"]_vars

\* The submission entry point of the deployed variant (completeMilestone in
\* the address-based one, submitMilestone in the role-based one).
SubmitErr(sender, c, milestoneIndex) ==
  IF variant = "address" THEN completeMilestoneErr(sender, c, milestoneIndex)
  ELSE submitMilestoneErr(sender, c, milestoneIndex)

\* C12: every step that changes the status of a stored milestone is either a
\* submission by the athlete of an Active contract that takes it from Pending
\* to Completed, or a rejection by the sponsor that takes an unpaid milestone
\* from Completed to Rejected; a submission of a milestone that is not
\* Pending, by anyone but the athlete, or outside Active is rejected, and so is
\* a rejection by anyone but the sponsor or of a paid milestone.
C12_MilestoneStatusTransitions ==
  /\ [][\A c \in ContractIds : \A i \in MilestoneIdx(c) :
          contracts'[c].milestones[i].status # contracts[c].milestones[i].status =>
            \/ /\ contracts[c].milestones[i].status = "Pending"
               /\ contracts'[c].milestones[i].status = "Completed"
               /\ contracts[c].state = "Active"
               /\ \/ completeMilestone(contracts[c].athlete, c, i - 1, contracts'[c].milestones[i].evidence)
                  \/ submitMilestone(contracts[c].athlete, c, i - 1, contracts'[c].milestones[i].evidence)
            \/ /\ contracts[c].milestones[i].status = "Completed"
               /\ contracts'[c].milestones[i].status = "Rejected"
               /\ ~contracts[c].milestones[i].paid
               /\ rejectMilestone(contracts[c].sponsor, c, i - 1)]_vars
  /\ [](\A c \in ContractIds : \A i \in MilestoneIdx(c) : \A sender \in LedgerSenders :
          /\ (\/ contracts[c].milestones[i].status # "Pending"
              \/ sender # contracts[c].athlete
              \/ contracts[c].state # "Active") => SubmitErr(sender, c, i - 1) # OK
          /\ (\/ contracts[c].milestones[i].status # "Completed"
              \/ contracts[c].milestones[i].paid
              \/ sender # contracts[c].sponsor) => rejectMilestoneErr(sender, c, i - 1) # OK)

\* C12 witness: of an Active contract one milestone was submitted and rejected
\* and another was submitted and is Completed and unpaid; the athlete's
\* submission of either is rejected.
C12_Witness ==
  \E c \in ContractIds : \E i \in MilestoneIdx(c), j \in MilestoneIdx(c) :
    /\ contracts[c].state = "Active"
    /\ contracts[c].milestones[i].status = "Rejected"
    /\ contracts[c].milestones[j].status = "Completed"
    /\ ~contracts[c].milestones[j].paid
    /\ SubmitErr(contracts[c].athlete, c, i - 1) = "Milestone not pending"
    /\ SubmitErr(contracts[c].athlete, c, j - 1) = "Milestone not pending"

\* The payment release entry point of the deployed variant
\* (releaseMilestonePayment in the address-based one, approveMilestone in the
\* role-based one, which takes no value).
ReleaseErr(sender, c, milestoneIndex, msgValue) ==
  IF variant = "address" THEN releaseMilestonePaymentErr(sender, c, milestoneIndex, msgValue)
  ELSE approveMilestoneErr(sender, c, milestoneIndex)

AssetBal(c) == IF contracts[c].paymentToken = ZERO THEN ethBal ELSE tokBal

SponsorCanPay(c, amount) ==
  IF contracts[c].paymentToken = ZERO THEN ethBal[contracts[c].sponsor] >= amount
  ELSE TransferFromOk(contracts[c].sponsor, amount)

\* C13: the sponsor's release of a Completed unpaid milestone of an Active
\* contract goes through whenever the sponsor holds (and, for a token, has
\* approved) the amount and the athlete is an account, for native currency as
\* for a token; and a release that goes through takes the milestone's amount
\* in the payment asset from the sponsor's balance, adds it to the athlete's
\* and leaves the Ledger's balance in that asset as it was.
C13_ReleaseMovesAmount ==
  /\ [](\A c \in ContractIds : \A i \in MilestoneIdx(c) :
          (/\ Created(c)
           /\ contracts[c].state = "Active"
           /\ contracts[c].milestones[i].status = "Completed"
           /\ ~contracts[c].milestones[i].paid
           /\ contracts[c].sponsor \in Holders
           /\ contracts[c].athlete \in EOAs
           /\ SponsorCanPay(c, contracts[c].milestones[i].amount)) =>
             ReleaseErr(contracts[c].sponsor, c, i - 1,
                        IF contracts[c].paymentToken = ZERO
                          THEN contracts[c].milestones[i].amount ELSE 0) = OK)
  /\ [][\A c \in ContractIds : \A i \in MilestoneIdx(c) :
          (/\ paymentReleased'[c][i] # paymentReleased[c][i]
           /\ contracts[c].athlete \in Holders
           /\ contracts[c].athlete # contracts[c].sponsor) =>
             /\ AssetBal(c)'[contracts[c].sponsor] =
                  AssetBal(c)[contracts[c].sponsor] - contracts[c].milestones[i].amount
             /\ AssetBal(c)'[contracts[c].athlete] =
                  AssetBal(c)[contracts[c].athlete] + contracts[c].milestones[i].amount
             /\ AssetBal(c)'[LEDGER] = AssetBal(c)[LEDGER]]_vars

\* C14: while the external transfer of a payment release is in progress the
\* lock is held and every payment release, by any caller on any milestone,
\* is rejected; no balance moves inside the transfer; and no milestone has
\* more than one PaymentReleased.
C14_NoNestedRelease ==
  /\ [](frame # NoFrame =>
          /\ locked
          /\ \A sender \in LedgerSenders \cup {TOKEN}, c \in ContractIds,
                i \in 0 .. MaxMilestones, v \in Amounts : ReleaseErr(sender, c, i, v) # OK)
  /\ [](\A c \in ContractIds : \A i \in 1 .. MaxMilestones : paymentReleased[c][i] <= 1)
  /\ [][(frame # NoFrame /\ frame' # NoFrame) => UNCHANGED <<ethBal, tokBal>>]_vars

\* C14 witness: in the address-based variant the transfer of a release is in
\* progress, the milestone is still unpaid and Completed and the contract
\* Active, and the sponsor's nested release of it is rejected by the lock.
C14_Witness ==
  /\ variant = "address"
  /\ frame # NoFrame
  /\ contracts[frame.contractId].state = "Active"
  /\ contracts[frame.contractId].milestones[frame.milestoneIndex + 1].status = "Completed"
  /\ ~contracts[frame.contractId].milestones[frame.milestoneIndex + 1].paid
  /\ contracts[frame.contractId].milestones[frame.milestoneIndex + 1].amount > 0
  /\ ReleaseErr(contracts[frame.contractId].sponsor, frame.contractId, frame.milestoneIndex,
                contracts[frame.contractId].milestones[frame.milestoneIndex + 1].amount)
       = "ReentrancyGuard: reentrant call"

\* The updateContract entry point of the deployed variant.
UpdateErr(sender, c) ==
  IF variant = "address" THEN updateContractV1Err(sender, c) ELSE updateContractV2Err(sender, c)

\* C18: every step that changes the update history or the document reference
\* of a created contract appends the reference held before the step to the
\* history, which grows by one, sets the reference to a new document and
\* leaves state, milestones, parties and totalValue as they were; and
\* updateContract by the athlete or the sponsor (and, in the role-based
\* variant, by an agent) is accepted in every lifecycle state.
C18_UpdateAppendsHistory ==
  /\ [][\A c \in ContractIds :
          (/\ Created(c)
           /\ \/ contracts'[c].updateHistory # contracts[c].updateHistory
              \/ contracts'[c].contractIPFSHash # contracts[c].contractIPFSHash) =>
             /\ contracts'[c].updateHistory =
                  Append(contracts[c].updateHistory, contracts[c].contractIPFSHash)
             /\ contracts'[c].contractIPFSHash \in UpdateDocuments
             /\ contracts'[c].state = contracts[c].state
             /\ contracts'[c].milestones = contracts[c].milestones
             /\ contracts'[c].athlete = contracts[c].athlete
             /\ contracts'[c].sponsor = contracts[c].sponsor
             /\ contracts'[c].totalValue = contracts[c].totalValue]_vars
  /\ [](\A c \in ContractIds : \A sender \in EOAs :
          (/\ Created(c)
           /\ \/ sender = contracts[c].athlete
              \/ sender = contracts[c].sponsor
              \/ (variant = "role" /\ hasRole(ledgerRoles, AGENT_ROLE, sender))) =>
             UpdateErr(sender, c) = OK)

\* C18 witness: the document of a contract that is Terminated has been
\* updated: the history ends with the document the contract was created with.
C18_Witness ==
  \E c \in ContractIds :
    /\ Created(c)
    /\ contracts[c].state = "Terminated"
    /\ Len(contracts[c].updateHistory) = MaxUpdates
    /\ contracts[c].updateHistory[1] \in CreateDocuments
    /\ contracts[c].contractIPFSHash \in UpdateDocuments

(***************************************************************************)
(* SponsorshipNFT: the token counter is incremented before it is read, so  *)
(* the first token has id 1 and tokenIdOf[contractId] = 0 means "no token  *)
(* minted".  Only the Factory holds MINTER_ROLE (granted by the            *)
(* constructor to its deployer, the Factory); tokens are never burnt.      *)
(***************************************************************************)
Minters == {FACTORY}

exists(tokenId) == owners[tokenId] # ZERO

\* mintSponsorshipNFTErr without the zero-sentinel requirement on tokenIdOf.
mintSponsorshipNFTErrNoSentinel(sender, to, contractId) ==
  IF sender \notin Minters THEN "Caller is not a minter"
  ELSE IF to = ZERO THEN "ERC721: mint to the zero address"
  ELSE OK

mintSponsorshipNFTErr(sender, to, contractId) ==
  IF sender \notin Minters THEN "Caller is not a minter"
  ELSE IF tokenIdOf[contractId] # 0 THEN "NFT already minted for this contract"
  ELSE IF to = ZERO THEN "ERC721: mint to the zero address"
  ELSE OK

\* mintSponsorshipNFT reading the counter before incrementing it.
mintSponsorshipNFTFromZero(to, contractId) ==
  /\ tokenIds \in TokenIdSlots
  /\ tokenIds' = tokenIds + 1
  /\ owners' = [owners EXCEPT ![tokenIds] = to]
  /\ contractIdOf' = [contractIdOf EXCEPT ![tokenIds] = contractId]
  /\ tokenIdOf' = [tokenIdOf EXCEPT ![contractId] = tokenIds]

\* The writes of mintSponsorshipNFT; the new token id is the incremented counter.
mintSponsorshipNFT(to, contractId) ==
  /\ tokenIds + 1 \in TokenIdSlots
  /\ tokenIds' = tokenIds + 1
  /\ owners' = [owners EXCEPT ![tokenIds + 1] = to]
  /\ contractIdOf' = [contractIdOf EXCEPT ![tokenIds + 1] = contractId]
  /\ tokenIdOf' = [tokenIdOf EXCEPT ![contractId] = tokenIds + 1]

\* getContractIdErr without the requirement that the token exists.
getContractIdErrNoExists(tokenId) == OK

getContractIdErr(tokenId) ==
  IF ~exists(tokenId) THEN "Token does not exist" ELSE OK

getContractId(tokenId) == contractIdOf[tokenId]

\* ERC721 transfer by the owner of the token (approvals are not modelled).
transferFromErr(sender, from, to, tokenId) ==
  IF ~exists(tokenId) THEN "ERC721: invalid token ID"
  ELSE IF sender # owners[tokenId] THEN "ERC721: caller is not token owner or approved"
  ELSE IF from # owners[tokenId] THEN "ERC721: transfer from incorrect owner"
  ELSE IF to = ZERO THEN "ERC721: transfer to the zero address"
  ELSE OK

transferFrom(sender, from, to, tokenId) ==
  /\ transferFromErr(sender, from, to, tokenId) = OK
  /\ owners[tokenId] # to
  /\ owners' = [owners EXCEPT ![tokenId] = to]
  /\ UNCHANGED <<variant, callVars, registryVars, tokenIds, tokenIdOf, contractIdOf,
                 ledgerVars, roleVars, moneyVars, disputeVars>>

(***************************************************************************)
(* Factory, address-based deployment: its own user registry, no role       *)
(* checks on creation.                                                     *)
(***************************************************************************)
registerUserV1Err(sender, user) ==
  IF user \in isRegistered THEN "Already registered"
  ELSE IF ~(sender = user \/ sender = ADMIN) THEN "Only self or admin can register"
  ELSE OK

registerUserV1(sender, user, role, name) ==
  /\ variant = "address"
  /\ registerUserV1Err(sender, user) = OK
  /\ isRegistered' = isRegistered \cup {user}
  /\ factoryRoles' = factoryRoles \cup {<<user, role>>}
  /\ userInfo' = [userInfo EXCEPT ![user].name = name, ![user].isVerified = FALSE]
  /\ UNCHANGED <<variant, callVars, nftVars, userRoles, ledgerVars, ledgerRoles, drRoles, moneyVars, disputeVars>>

createSponsorshipContractV1Err(athlete, sponsor, startDate, endDate) ==
  createContractV1Err(athlete, sponsor, startDate, endDate)

createSponsorshipContractV1(athlete, sponsor, contractIPFSHash, totalValue, startDate, endDate, paymentToken, arbitrators) ==
  /\ variant = "address"
  /\ createSponsorshipContractV1Err(athlete, sponsor, startDate, endDate) = OK
  /\ StoreContractWithin(AllContractIds, athlete, sponsor, contractIPFSHash, totalValue,
                         startDate, endDate, paymentToken, arbitrators)
  /\ UNCHANGED <<variant, extVars, roleVars, moneyVars, disputeVars>>

mintContractNFTV1Err(sender, contractId) ==
  LET c == contracts[contractId] IN
  IF ~(sender = c.athlete \/ sender = c.sponsor) THEN "Only athlete or sponsor can mint"
  ELSE mintSponsorshipNFTErr(FACTORY, c.sponsor, contractId)

mintContractNFTV1(sender, contractId) ==
  /\ variant = "address"
  /\ mintContractNFTV1Err(sender, contractId) = OK
  /\ mintSponsorshipNFT(contracts[contractId].sponsor, contractId)
  /\ UNCHANGED <<variant, callVars, registryVars, ledgerVars, roleVars, moneyVars, disputeVars>>

(***************************************************************************)
(* Factory, role-based deployment.  The Factory checks the roles in its    *)
(* own registry and then calls the Ledger, where msg.sender is the Factory.*)
(***************************************************************************)
createSponsorshipContractV2Err(sender, athlete, sponsor, startDate, endDate) ==
  IF ~(hasRole(factoryRoles, ATHLETE_ROLE, athlete) \/ hasRole(factoryRoles, AGENT_ROLE, sender))
    THEN "Only athlete or agent can create"
  ELSE IF ~hasRole(factoryRoles, SPONSOR_ROLE, sponsor) THEN "Sponsor must have SPONSOR_ROLE"
  ELSE createContractV2Err(FACTORY, athlete, sponsor, startDate, endDate)

\* PushContract without the push.
PushContractNowhere(info, user, contractId) == info

PushContract(info, user, contractId) ==
  [info EXCEPT ![user].contracts = Append(@, contractId)]

createSponsorshipContractV2(sender, athlete, sponsor, contractIPFSHash, totalValue, startDate, endDate, paymentToken, arbitrators) ==
  /\ variant = "role"
  /\ createSponsorshipContractV2Err(sender, athlete, sponsor, startDate, endDate) = OK
  /\ StoreContractWithin(AllContractIds, athlete, sponsor, contractIPFSHash, totalValue,
                         startDate, endDate, paymentToken, arbitrators)
  /\ userInfo' =
       LET parties == PushContract(PushContract(userInfo, athlete, contractCount),
                                   sponsor, contractCount)
       IN IF hasRole(factoryRoles, AGENT_ROLE, sender) /\ sender # athlete /\ sender # sponsor
            THEN PushContract(parties, sender, contractCount)
            ELSE parties
  /\ UNCHANGED <<variant, callVars, nftVars, isRegistered, userRoles, roleVars, moneyVars, disputeVars>>

mintContractNFTV2Err(sender, contractId) ==
  LET c == contracts[contractId] IN
  IF ~(sender = c.athlete \/ sender = c.sponsor \/ hasRole(factoryRoles, AGENT_ROLE, sender))
    THEN "Only athlete, sponsor or agent can mint"
  ELSE mintSponsorshipNFTErr(FACTORY, c.sponsor, contractId)

mintContractNFTV2(sender, contractId) ==
  /\ variant = "role"
  /\ mintContractNFTV2Err(sender, contractId) = OK
  /\ mintSponsorshipNFT(contracts[contractId].sponsor, contractId)
  /\ UNCHANGED <<variant, callVars, registryVars, ledgerVars, roleVars, moneyVars, disputeVars>>

(***************************************************************************)
(* The transactions of the factory specification: users register, contracts*)
(* are created through the Factory (two of them), get a milestone, are     *)
(* activated, disputed through DisputeResolution and tokenized.  Total     *)
(* values and amounts are 0, so the balances stay as deployed.             *)
(***************************************************************************)
FacRegistrations == {<<"arb2", ATHLETE_ROLE>>, <<"ath", SPONSOR_ROLE>>, <<DR, ATHLETE_ROLE>>}
FacNames == {"New User"}
FacAthletes == {"ath", DR}
FacSponsors == {"spo"}

FacRegisterUserV1 ==
  \E sender \in EOAs, reg \in FacRegistrations, name \in FacNames :
       registerUserV1(sender, reg[1], reg[2], name)

FacRegisterUserV2 ==
  \E sender \in EOAs, reg \in FacRegistrations, name \in FacNames :
       registerUser(sender, reg[1], reg[2], name)

FacCreateSponsorshipContractV1 ==
  \E athlete \in FacAthletes, sponsor \in FacSponsors, hash \in CreateDocuments,
     dates \in DateChoices :
       createSponsorshipContractV1(athlete, sponsor, hash, 0, dates[1], dates[2], TOKEN, << >>)

FacCreateSponsorshipContractV2 ==
  \E sender \in EOAs, athlete \in FacAthletes, sponsor \in FacSponsors, hash \in CreateDocuments,
     dates \in DateChoices :
       createSponsorshipContractV2(sender, athlete, sponsor, hash, 0, dates[1], dates[2],
                                   TOKEN, << >>)

FacAddMilestonesV1 ==
  \E sender \in EOAs, contractId \in AllContractIds : addMilestonesV1(sender, contractId, 1, <<0>>, 1)

FacAddMilestonesV2 ==
  \E sender \in EOAs, contractId \in AllContractIds : addMilestonesV2(sender, contractId, 1, <<0>>, 1)

FacActivateContractV1 ==
  \E sender \in EOAs, contractId \in AllContractIds : activateContractV1(sender, contractId)

FacActivateContractV2 ==
  \E sender \in EOAs, contractId \in AllContractIds : activateContractV2(sender, contractId)

FacCreateDispute ==
  \E sender \in EOAs, contractId \in AllContractIds : createDispute(sender, contractId)

FacMintContractNFTV1 ==
  \E sender \in EOAs, contractId \in AllContractIds : mintContractNFTV1(sender, contractId)

FacMintContractNFTV2 ==
  \E sender \in EOAs, contractId \in AllContractIds : mintContractNFTV2(sender, contractId)

FacTransferFrom ==
  \E sender \in EOAs, tokenId \in TokenIdSlots : transferFrom(sender, sender, "ath", tokenId)

NextFactory ==
  \/ FacRegisterUserV1
  \/ FacRegisterUserV2
  \/ FacCreateSponsorshipContractV1
  \/ FacCreateSponsorshipContractV2
  \/ FacAddMilestonesV1
  \/ FacAddMilestonesV2
  \/ FacActivateContractV1
  \/ FacActivateContractV2
  \/ FacCreateDispute
  \/ FacMintContractNFTV1
  \/ FacMintContractNFTV2
  \/ FacTransferFrom

SpecFactory == Init /\ [][NextFactory]_vars

\* The revert reason of mintContractNFT in the deployment at hand.
MintErr(sender, contractId) ==
  IF variant = "address" THEN mintContractNFTV1Err(sender, contractId)
  ELSE mintContractNFTV2Err(sender, contractId)

TokensOf(contractId) ==
  {t \in TokenIdSlots : exists(t) /\ contractIdOf[t] = contractId}

\* C15: for every contract id (0 included) at most one token is ever minted:
\* the contract id has a token exactly when its tokenIdOf entry is not 0, in
\* that case every mint for it -- mintSponsorshipNFT by any caller for any
\* recipient, mintContractNFT by any caller -- is rejected, and no step
\* changes the token of the contract id or the contract id of that token.
C15_OneTokenPerContract ==
  /\ [](\A c \in AllContractIds :
          /\ Cardinality(TokensOf(c)) <= 1
          /\ (TokensOf(c) # {}) <=> (tokenIdOf[c] # 0)
          /\ tokenIdOf[c] # 0 =>
               /\ TokensOf(c) = {tokenIdOf[c]}
               /\ \A sender \in Accounts :
                    /\ MintErr(sender, c) # OK
                    /\ \A to \in Accounts : mintSponsorshipNFTErr(sender, to, c) # OK)
  /\ [][\A c \in AllContractIds :
          tokenIdOf[c] # 0 =>
            /\ tokenIdOf'[c] = tokenIdOf[c]
            /\ contractIdOf'[tokenIdOf[c]] = c
            /\ exists(tokenIdOf[c])']_vars

\* C15 witness: contract 0 and contract 1 both have their token, and a further
\* mint for contract 0 by its sponsor is turned down by the sentinel check.
C15_Witness ==
  /\ tokenIdOf[0] # 0
  /\ tokenIdOf[1] # 0
  /\ contracts[0].sponsor = "spo"
  /\ MintErr("spo", 0) = "NFT already minted for this contract"

\* The token ids handed out so far.
Minted == 1 .. tokenIds

\* C16: getContractId fails with "Token does not exist" for every token id
\* that has not been minted (0 and the ids above the counter), and for every
\* minted token it returns the contract id the token was minted for: the
\* contract id passed to the mint, at the mint and ever after.
C16_GetContractId ==
  /\ [](\A t \in TokenIdSlots :
          IF t \in Minted
            THEN /\ getContractIdErr(t) = OK
                 /\ getContractId(t) \in AllContractIds
                 /\ tokenIdOf[getContractId(t)] = t
            ELSE getContractIdErr(t) = "Token does not exist")
  /\ [][\A sender \in EOAs, c \in AllContractIds, t \in TokenIdSlots :
          (t = tokenIds + 1 /\ (mintContractNFTV1(sender, c) \/ mintContractNFTV2(sender, c))) =>
            /\ getContractIdErr(t)' = OK
            /\ getContractId(t)' = c]_vars
  /\ [][\A t \in Minted : getContractId(t)' = getContractId(t)]_vars

\* C16 witness: token 1 was minted for contract 1 and token 2 for contract 0,
\* token 1 has changed hands since, and token id 0 is rejected.
C16_Witness ==
  /\ tokenIds = 2
  /\ getContractIdErr(1) = OK /\ getContractId(1) = 1
  /\ getContractIdErr(2) = OK /\ getContractId(2) = 0
  /\ owners[1] = "ath"
  /\ getContractIdErr(0) = "Token does not exist"

Last(seq) == seq[Len(seq)]

\* All three counters start at 0.
CountersAtZero == contractCount = 0 /\ disputeCount = 0 /\ tokenIds = 0

\* A step that moves the contract counter moves it up by one and writes the
\* record of the id that is the old value of the counter, and of no other.
ContractIdStep ==
  contractCount' # contractCount =>
    /\ contractCount' = contractCount + 1
    /\ \A c \in AllContractIds \ {contractCount} : contracts'[c] = contracts[c]
    /\ contracts'[contractCount].state = "Draft"
    /\ variant = "role" =>
         Last(userInfo'[contracts'[contractCount].sponsor].contracts) = contractCount

\* The same for disputes.
DisputeIdStep ==
  disputeCount' # disputeCount =>
    /\ disputeCount' = disputeCount + 1
    /\ \A d \in DisputeIds \ {disputeCount} : disputes'[d] = disputes[d]
    /\ disputeIdOf'[disputes'[disputeCount].contractId] = disputeCount

\* The tokens in existence are the first tokenIds ids from firstToken on.
TokenIdsInUse(firstToken) ==
  \A t \in TokenIdSlots : exists(t) <=> (t >= firstToken /\ t < firstToken + tokenIds)

\* A step that touches the token counter, the set of tokens or tokenIdOf mints
\* exactly one token, whose id is the old value of the counter plus firstToken.
TokenIdStep(firstToken) ==
  (tokenIds' # tokenIds \/ tokenIdOf' # tokenIdOf
     \/ \E t \in TokenIdSlots : exists(t)' # exists(t)) =>
    /\ tokenIds' = tokenIds + 1
    /\ {t \in TokenIdSlots : ~exists(t) /\ exists(t)'} = {tokenIds + firstToken}
    /\ \A t \in TokenIdSlots : exists(t) => exists(t)'
    /\ \E c \in AllContractIds :
         /\ tokenIdOf' = [tokenIdOf EXCEPT ![c] = tokenIds + firstToken]
         /\ contractIdOf'[tokenIds + firstToken] = c

\* C17: contract ids and dispute ids are assigned sequentially from 0 and
\* token ids sequentially from 1 (the token counter is incremented before it
\* is read): every creation gets the id after the previous one, and no id is
\* assigned twice.
C17_SequentialIds ==
  /\ CountersAtZero
  /\ []TokenIdsInUse(1)
  /\ [][ContractIdStep]_vars
  /\ [][DisputeIdStep]_vars
  /\ [][TokenIdStep(1)]_vars

\* C17 as stated: the first minted token, like the first contract and the
\* first dispute, gets id 0.
C17_Original ==
  /\ CountersAtZero
  /\ []TokenIdsInUse(0)
  /\ [][ContractIdStep]_vars
  /\ [][DisputeIdStep]_vars
  /\ [][TokenIdStep(0)]_vars

\* C17 witness: two contracts, two disputes and two tokens have been created.
C17_Witness ==
  /\ contractCount = 2
  /\ disputeCount = 2
  /\ tokenIds = 2
  /\ exists(1) /\ exists(2) /\ ~exists(0)

\* The revert reason of createSponsorshipContract in the deployment at hand.
CreateErr(sender, athlete, sponsor, startDate, endDate) ==
  IF variant = "address" THEN createSponsorshipContractV1Err(athlete, sponsor, startDate, endDate)
  ELSE createSponsorshipContractV2Err(sender, athlete, sponsor, startDate, endDate)

\* The role precondition of createSponsorshipContract, on the Factory's registry.
RolesAllowCreate(sender, athlete, sponsor) ==
  /\ hasRole(factoryRoles, SPONSOR_ROLE, sponsor)
  /\ hasRole(factoryRoles, ATHLETE_ROLE, athlete) \/ hasRole(factoryRoles, AGENT_ROLE, sender)

\* C19: createSponsorshipContract succeeds whenever end > start, the sponsor
\* holds the Sponsor role and either the athlete holds the Athlete role or
\* the caller holds the Agent role (an agent creating for an athlete address
\* without the Athlete role included); it fails when the sponsor lacks the
\* Sponsor role or neither alternative holds.
C19_CreateGatedByRoles ==
  \A sender \in EOAs, athlete \in EOAs \cup {DR}, sponsor \in EOAs, dates \in DateChoices :
    /\ (dates[2] > dates[1] /\ RolesAllowCreate(sender, athlete, sponsor)) =>
         CreateErr(sender, athlete, sponsor, dates[1], dates[2]) = OK
    /\ ~RolesAllowCreate(sender, athlete, sponsor) =>
         CreateErr(sender, athlete, sponsor, dates[1], dates[2]) # OK

UserRoles == {ATHLETE_ROLE, SPONSOR_ROLE, AGENT_ROLE, ARBITRATOR_ROLE}

\* The revert reason of registerUser in the deployment at hand.
RegisterErr(sender, user, role) ==
  IF variant = "address" THEN registerUserV1Err(sender, user)
  ELSE registerUserErr(sender, user, role)

\* The address has been registered: the isRegistered flag of the
\* address-based Factory, a non-empty role list in the role-based one.
IsRegisteredUser(user) ==
  IF variant = "address" THEN user \in isRegistered
  ELSE userRoles[user] # << >>

IsFactoryAdmin(sender) ==
  IF variant = "address" THEN sender = ADMIN
  ELSE hasRole(factoryRoles, DEFAULT_ADMIN_ROLE, sender)

\* What the Factory records about a user: profile, roles, registered flag.
RegistryOf(user) ==
  <<userInfo[user].name, userInfo[user].isVerified,
    {role \in UserRoles : hasRole(factoryRoles, role, user)}, user \in isRegistered,
    userRoles[user]>>

\* C20: in the address-based Factory registerUser succeeds exactly when the
\* caller is the address itself or the admin and the address is not yet
\* registered; in the role-based Factory it succeeds exactly when the caller
\* holds the admin role and the address does not hold that role yet, so a
\* registered address can be registered again with another role.  An
\* accepted registerUser leaves the address registered, holding the role and
\* under the given name, and changes the record of no other address.
C20_RegisterUser ==
  /\ [](\A sender \in EOAs, user \in EOAs \cup {DR}, role \in UserRoles :
          (RegisterErr(sender, user, role) = OK) <=>
            IF variant = "address"
              THEN (sender = user \/ sender = ADMIN) /\ ~IsRegisteredUser(user)
              ELSE IsFactoryAdmin(sender) /\ ~hasRole(factoryRoles, role, user))
  /\ [][\A sender \in EOAs, reg \in FacRegistrations, name \in FacNames :
          (registerUserV1(sender, reg[1], reg[2], name) \/ registerUser(sender, reg[1], reg[2], name)) =>
            /\ RegisterErr(sender, reg[1], reg[2]) = OK
            /\ hasRole(factoryRoles, reg[2], reg[1])'
            /\ IsRegisteredUser(reg[1])'
            /\ userInfo'[reg[1]].name = name
            /\ \A other \in Accounts \ {reg[1]} : RegistryOf(other)' = RegistryOf(other)]_vars

\* C20 as stated: registerUser succeeds only for the address itself or the
\* admin, and only for an address that is not yet registered.
C20_Original ==
  \A sender \in EOAs, user \in EOAs \cup {DR}, role \in UserRoles :
    RegisterErr(sender, user, role) = OK =>
      (sender = user \/ IsFactoryAdmin(sender)) /\ ~IsRegisteredUser(user)

\* C20 witness: in the role-based deployment the athlete has been registered a
\* second time, as sponsor, under a new name; a third registration with that
\* role is rejected, and so is a self-registration.
C20_Witness ==
  /\ variant = "role"
  /\ hasRole(factoryRoles, ATHLETE_ROLE, "ath")
  /\ hasRole(factoryRoles, SPONSOR_ROLE, "ath")
  /\ userInfo["ath"].name \in FacNames
  /\ RegisterErr(ADMIN, "ath", SPONSOR_ROLE) = "User already has this role"
  /\ RegisterErr("arb3", "arb3", ATHLETE_ROLE) = "Admin role required"

(***************************************************************************)
(* Factory registry, address-based deployment: addRole and verifyUser are  *)
(* for the admin and for registered addresses.                             *)
(***************************************************************************)
addRoleErr(sender, user) ==
  IF sender # ADMIN THEN "Only admin"
  ELSE IF user \notin isRegistered THEN "User not registered"
  ELSE OK

addRole(sender, user, role) ==
  /\ variant = "address"
  /\ addRoleErr(sender, user) = OK
  /\ factoryRoles' = factoryRoles \cup {<<user, role>>}
  /\ UNCHANGED <<variant, extVars, ledgerVars, ledgerRoles, drRoles, moneyVars, disputeVars>>

verifyUserV1Err(sender, user) ==
  IF sender # ADMIN THEN "Only admin"
  ELSE IF user \notin isRegistered THEN "User not registered"
  ELSE OK

verifyUserV1(sender, user) ==
  /\ variant = "address"
  /\ verifyUserV1Err(sender, user) = OK
  /\ userInfo' = [userInfo EXCEPT ![user].isVerified = TRUE]
  /\ UNCHANGED <<variant, callVars, nftVars, isRegistered, userRoles, ledgerVars, roleVars,
                 moneyVars, disputeVars>>

(***************************************************************************)
(* Factory registry, role-based deployment.  The Factory is an             *)
(* AccessControl contract, so besides its own functions it has the public  *)
(* revokeRole (for the admin of the role) and renounceRole (for the holder)*)
(* it inherits.                                                            *)
(***************************************************************************)
verifyUserV2Err(sender, user) ==
  IF ~hasRole(factoryRoles, DEFAULT_ADMIN_ROLE, sender) THEN "Admin role required"
  ELSE OK

verifyUserV2(sender, user) ==
  /\ variant = "role"
  /\ verifyUserV2Err(sender, user) = OK
  /\ userInfo' = [userInfo EXCEPT ![user].isVerified = TRUE]
  /\ UNCHANGED <<variant, callVars, nftVars, isRegistered, userRoles, ledgerVars, roleVars,
                 moneyVars, disputeVars>>

updateUserProfile(sender, name) ==
  /\ variant = "role"
  /\ userInfo' = [userInfo EXCEPT ![sender].name = name]
  /\ UNCHANGED <<variant, callVars, nftVars, isRegistered, userRoles, ledgerVars, roleVars,
                 moneyVars, disputeVars>>

revokeRoleErr(sender, role, account) ==
  IF ~hasRole(factoryRoles, DEFAULT_ADMIN_ROLE, sender) THEN "AccessControl: missing role"
  ELSE OK

revokeRole(sender, role, account) ==
  /\ variant = "role"
  /\ revokeRoleErr(sender, role, account) = OK
  /\ factoryRoles' = factoryRoles \ {<<account, role>>}
  /\ UNCHANGED <<variant, extVars, ledgerVars, ledgerRoles, drRoles, moneyVars, disputeVars>>

renounceRoleErr(sender, role, account) ==
  IF account # sender THEN "AccessControl: can only renounce roles for self"
  ELSE OK

renounceRole(sender, role, account) ==
  /\ variant = "role"
  /\ renounceRoleErr(sender, role, account) = OK
  /\ factoryRoles' = factoryRoles \ {<<account, role>>}
  /\ UNCHANGED <<variant, extVars, ledgerVars, ledgerRoles, drRoles, moneyVars, disputeVars>>

(***************************************************************************)
(* The transactions of the registry specification.                         *)
(***************************************************************************)
RegUsers == {"ath", "arb2", "arb3"}
RegRoles == {ATHLETE_ROLE, SPONSOR_ROLE}

RegRegisterUserV1 ==
  \E sender \in EOAs, user \in RegUsers, role \in RegRoles, name \in FacNames :
       registerUserV1(sender, user, role, name)

RegRegisterUserV2 ==
  \E sender \in EOAs, user \in RegUsers, role \in RegRoles, name \in FacNames :
       registerUser(sender, user, role, name)

RegAddRole ==
  \E sender \in EOAs, user \in RegUsers, role \in RegRoles : addRole(sender, user, role)

RegVerifyUserV1 ==
  \E sender \in EOAs, user \in RegUsers : verifyUserV1(sender, user)

RegVerifyUserV2 ==
  \E sender \in EOAs, user \in RegUsers : verifyUserV2(sender, user)

RegUpdateUserProfile ==
  \E sender \in RegUsers, name \in FacNames : updateUserProfile(sender, name)

RegRevokeRole ==
  \E sender \in EOAs, account \in RegUsers, role \in RegRoles : revokeRole(sender, role, account)

RegRenounceRole ==
  \E sender \in RegUsers, role \in RegRoles : renounceRole(sender, role, sender)

NextRegistry ==
  \/ RegRegisterUserV1
  \/ RegRegisterUserV2
  \/ RegAddRole
  \/ RegVerifyUserV1
  \/ RegVerifyUserV2
  \/ RegUpdateUserProfile
  \/ RegRevokeRole
  \/ RegRenounceRole

SpecRegistry == Init /\ [][NextRegistry]_vars

\* The revert reason of verifyUser in the deployment at hand.
VerifyErr(sender, user) ==
  IF variant = "address" THEN verifyUserV1Err(sender, user) ELSE verifyUserV2Err(sender, user)

\* C21: roles are monotone -- an address that the registry reports as holding
\* a role is reported so after every step -- and the verified flag of a
\* profile changes only in a step in which the admin's verifyUser for that
\* address is accepted, and then to true.
C21_RolesMonotone ==
  /\ [][\A a \in Accounts, role \in UserRoles :
          hasRole(factoryRoles, role, a) => hasRole(factoryRoles, role, a)']_vars
  /\ [][\A a \in Accounts :
          userInfo'[a].isVerified # userInfo[a].isVerified =>
            /\ userInfo'[a].isVerified
            /\ \E sender \in EOAs : IsFactoryAdmin(sender) /\ VerifyErr(sender, a) = OK]_vars

\* C22: verifyUser fails for a caller that is not the admin and fails for an
\* address without a registered profile; the verified flag is set only on
\* registered addresses.
C22_VerifyUserGuards ==
  /\ [](\A sender \in EOAs, addr \in RegUsers :
          /\ ~IsFactoryAdmin(sender) => VerifyErr(sender, addr) # OK
          /\ ~IsRegisteredUser(addr) => VerifyErr(sender, addr) # OK)
  /\ [][\A addr \in Accounts :
          (~userInfo[addr].isVerified /\ userInfo'[addr].isVerified) => IsRegisteredUser(addr)]_vars

\* The revert reason of addMilestones in the deployment at hand.
AddErr(sender, c, descLen, amounts, deadlineLen) ==
  IF variant = "address" THEN addMilestonesV1Err(sender, c, descLen, amounts, deadlineLen)
  ELSE addMilestonesV2Err(sender, c, descLen, amounts, deadlineLen)

\* The callers addMilestones accepts: athlete or sponsor, and in the
\* role-based variant also a holder of the Agent role.
MayAddMilestones(sender, c) ==
  \/ sender = contracts[c].athlete
  \/ sender = contracts[c].sponsor
  \/ variant = "role" /\ hasRole(ledgerRoles, AGENT_ROLE, sender)

\* One of the four grounds on which addMilestones is to be rejected.
BadBatch(sender, c, descLen, amounts, deadlineLen) ==
  \/ ~(descLen = Len(amounts) /\ Len(amounts) = deadlineLen)
  \/ SumAmounts(amounts) # contracts[c].totalValue
  \/ contracts[c].state # "Draft"
  \/ ~MayAddMilestones(sender, c)

\* C23: addMilestones with arrays of different lengths, a sum of amounts that
\* differs from totalValue, a contract that is not in Draft or an unauthorized
\* caller is rejected, and no step stores part of a rejected batch: whenever
\* the milestone list of a contract changes, it is extended by all the
\* milestones, Pending and unpaid, of one batch that has none of these faults.
C23_RejectedBatchStoresNothing ==
  /\ [](\A c \in ContractIds, sender \in LedgerSenders, descLen \in BatchLens,
          amounts \in Batches, deadlineLen \in BatchLens :
            BadBatch(sender, c, descLen, amounts, deadlineLen) =>
              AddErr(sender, c, descLen, amounts, deadlineLen) # OK)
  /\ [][\A c \in ContractIds :
          Len(contracts'[c].milestones) # Len(contracts[c].milestones) =>
            \E sender \in LedgerSenders, amounts \in Batches :
              /\ ~BadBatch(sender, c, Len(amounts), amounts, Len(amounts))
              /\ contracts'[c].milestones =
                   contracts[c].milestones \o [i \in 1 .. Len(amounts) |-> NewMilestone(amounts[i])]]_vars

\* C23 witness: a Draft contract of total value 1 holds the one milestone of an
\* accepted batch, and the sponsor's batches with a wrong sum and with arrays
\* of different lengths are turned down.
C23_Witness ==
  \E c \in ContractIds :
    /\ Created(c)
    /\ contracts[c].state = "Draft"
    /\ contracts[c].totalValue = 1
    /\ Len(contracts[c].milestones) = 1
    /\ AddErr(contracts[c].sponsor, c, 2, <<1, 1>>, 2) =
         "Total milestone amounts must match contract value"
    /\ AddErr(contracts[c].sponsor, c, 2, <<1>>, 1) = "Arrays length mismatch"

\* C24: milestones are defined once per contract: once the milestone list of
\* a contract holds a milestone, every further addMilestones with a
\* non-empty batch is rejected and the list never grows again.
C24_MilestonesDefinedOnce ==
  /\ [](\A c \in ContractIds :
          Len(contracts[c].milestones) > 0 =>
            \A sender \in LedgerSenders, amounts \in Batches \ {<< >>} :
              AddErr(sender, c, Len(amounts), amounts, Len(amounts)) # OK)
  /\ [][\A c \in ContractIds :
          Len(contracts[c].milestones) > 0 =>
            Len(contracts'[c].milestones) = Len(contracts[c].milestones)]_vars

\* C25: whenever a created dispute goes from Open to Resolved, its parent
\* contract moves in the same step from Disputed to Active if the outcome
\* favours the athlete and to Terminated if it favours the sponsor; and the
\* Ledger accepts the resolveDispute call of the arbitration engine for the
\* Disputed parent contract of every Open dispute.
C25_ResolutionMovesContract ==
  /\ [][\A d \in DisputeIds :
          (OpenDispute(d) /\ disputes'[d].resolved) =>
            /\ contracts[disputes[d].contractId].state = "Disputed"
            /\ contracts'[disputes[d].contractId].state =
                 IF disputes'[d].athleteFavor THEN "Active" ELSE "Terminated"]_vars
  /\ [](\A d \in DisputeIds :
          (OpenDispute(d) /\ contracts[disputes[d].contractId].state = "Disputed") =>
            LedgerResolveDisputeErr(DR, disputes[d].contractId) = OK)

\* C26: an accepted voteOnDispute records the vote and resolves the dispute in
\* the same step if and only if, with the vote counted, athleteVotes or
\* sponsorVotes is greater than the number of votes cast divided by two
\* (rounded down); the outcome recorded is the athlete's exactly when
\* athleteVotes is greater than sponsorVotes.
C26_MajorityRule ==
  [][\A d \in DisputeIds, a \in Arbitrators, f \in BOOLEAN :
       voteOnDispute(a, d, f) =>
         /\ Len(disputes'[d].votedArbitrators) = Len(disputes[d].votedArbitrators) + 1
         /\ disputes'[d].athleteVotes + disputes'[d].sponsorVotes =
              disputes[d].athleteVotes + disputes[d].sponsorVotes + 1
         /\ disputes'[d].resolved <=>
              \/ disputes'[d].athleteVotes > Len(disputes'[d].votedArbitrators) \div 2
              \/ disputes'[d].sponsorVotes > Len(disputes'[d].votedArbitrators) \div 2
         /\ disputes'[d].resolved =>
              (disputes'[d].athleteFavor <=> disputes'[d].athleteVotes > disputes'[d].sponsorVotes)]_vars

\* C26 witness: an Open dispute holds two votes, one each way, so the second
\* vote was accepted without a majority.
C26_Witness ==
  \E d \in DisputeIds :
    /\ OpenDispute(d)
    /\ Len(disputes[d].votedArbitrators) = 2
    /\ disputes[d].athleteVotes = 1
    /\ disputes[d].sponsorVotes = 1

\* C27: the calls of the arbitration engine are all-or-nothing: createDispute,
\* and a vote or forced resolution that would resolve, fail whenever the
\* Ledger rejects the nested call, and every step that creates a dispute or
\* resolves one changes the Ledger accordingly, so nothing is recorded for a
\* call the Ledger has rejected.
C27_AllOrNothing ==
  /\ [](\A c \in ContractIds, sender \in EOAs :
          raiseDisputeErr(DR, c) # OK => createDisputeErr(sender, c) # OK)
  /\ [](\A d \in DisputeIds, sender \in EOAs, f \in BOOLEAN :
          LedgerResolveDisputeErr(DR, disputes[d].contractId) # OK =>
            /\ forceResolveDisputeErr(sender, d) # OK
            /\ HasMajority(RecordVote(disputes[d], sender, f)) => voteOnDisputeErr(sender, d, f) # OK)
  /\ [][disputeCount' # disputeCount =>
          /\ raiseDisputeErr(DR, disputes'[disputeCount].contractId) = OK
          /\ contracts'[disputes'[disputeCount].contractId].state = "Disputed"]_vars
  /\ [][\A d \in DisputeIds :
          (~disputes[d].resolved /\ disputes'[d].resolved) =>
            /\ LedgerResolveDisputeErr(DR, disputes[d].contractId) = OK
            /\ contracts'[disputes[d].contractId].state # "Disputed"]_vars

\* C27 witness: an Open dispute without votes whose resolution the Ledger does
\* not accept from the arbitration engine: the vote of a registered arbitrator
\* and the admin's forced resolution are rejected with the Ledger's reason.
C27_Witness ==
  \E d \in DisputeIds :
    /\ OpenDispute(d)
    /\ disputes[d].votedArbitrators = << >>
    /\ contracts[disputes[d].contractId].state = "Disputed"
    /\ Registered("arb1")
    /\ voteOnDisputeErr("arb1", d, TRUE) = "Only arbitrator can resolve dispute"
    /\ forceResolveDisputeErr(ADMIN, d) = "Only arbitrator can resolve dispute"

\* C28: voteOnDispute and forceResolveDispute on a dispute id that was never
\* created are rejected, the record under such an id is blank, and a dispute
\* created later under it starts with zero tallies and no voters.
C28_UncreatedDisputeUntouched ==
  [](\A d \in DisputeIds :
       ~CreatedDispute(d) =>
         /\ disputes[d] = EmptyDispute
         /\ \A sender \in EOAs, f \in BOOLEAN :
              /\ voteOnDisputeErr(sender, d, f) # OK
              /\ forceResolveDisputeErr(sender, d) # OK)

\* C29: forceResolveDispute is rejected for every caller without the admin
\* role; called by a holder of the admin role on an Open dispute it is
\* accepted, whatever the tallies, and records the outcome passed.
C29_ForceResolve ==
  /\ [](\A d \in DisputeIds, sender \in EOAs :
          /\ ~hasRole(drRoles, DEFAULT_ADMIN_ROLE, sender) => forceResolveDisputeErr(sender, d) # OK
          /\ (hasRole(drRoles, DEFAULT_ADMIN_ROLE, sender) /\ OpenDispute(d)) =>
               forceResolveDisputeErr(sender, d) = OK)
  /\ [][\A d \in DisputeIds, sender \in EOAs, f \in BOOLEAN :
          forceResolveDispute(sender, d, f) =>
            disputes'[d].resolved /\ disputes'[d].athleteFavor = f]_vars


\* C30: for a contract whose payment asset is a token, activateContract is
\* rejected for every caller while the sponsor's allowance to the Ledger is
\* below totalValue, and a step that takes such a contract from Draft to Active
\* starts from an allowance of at least totalValue.
C30_ActivateNeedsAllowance ==
  /\ [](\A c \in ContractIds : \A sender \in LedgerSenders :
          (Created(c) /\ contracts[c].paymentToken # ZERO
             /\ allowance[contracts[c].sponsor] < contracts[c].totalValue) =>
               ActivateContractErr(sender, c) # OK)
  /\ [][\A c \in ContractIds :
         (contracts[c].paymentToken # ZERO /\ contracts[c].state = "Draft"
            /\ contracts'[c].state = "Active") =>
              allowance[contracts[c].sponsor] >= contracts[c].totalValue]_vars


\* Contract id k is in the Factory's contract list of the user.
InContractList(user, k) ==
  \E i \in 1 .. Len(userInfo[user].contracts) : userInfo[user].contracts[i] = k

IsPrefix(s, t) ==
  /\ Len(s) <= Len(t)
  /\ \A i \in 1 .. Len(s) : s[i] = t[i]

\* The users whose list a createSponsorshipContract by sender is to extend.
ListedParties(sender, athlete, sponsor) ==
  {athlete, sponsor} \cup (IF hasRole(factoryRoles, AGENT_ROLE, sender) THEN {sender} ELSE {})

\* C31: an accepted createSponsorshipContract of the role-based Factory puts
\* the new id into the contract lists of the athlete, of the sponsor and, when
\* the caller holds the Agent role and is neither of them, of the caller; a
\* user's contract list is only ever extended at its end, an id enters a list
\* only in the step that creates that contract and only for its athlete, its
\* sponsor or its Agent-role creator, and every listed id is a created
\* contract whose athlete or sponsor is the user or whose user is an agent.
C31_ContractLists ==
  /\ [][\A sender \in EOAs, athlete \in FacAthletes, sponsor \in FacSponsors,
           hash \in CreateDocuments, dates \in DateChoices :
           createSponsorshipContractV2(sender, athlete, sponsor, hash, 0, dates[1], dates[2],
                                       TOKEN, << >>) =>
             \A user \in ListedParties(sender, athlete, sponsor), k \in AllContractIds :
                k = contractCount => InContractList(user, k)']_vars
  /\ [][\A user \in Accounts :
           IsPrefix(userInfo[user].contracts, userInfo'[user].contracts)]_vars
  /\ [][\A user \in Accounts, k \in AllContractIds :
           (~InContractList(user, k) /\ InContractList(user, k)') =>
              /\ k = contractCount
              /\ contractCount' = contractCount + 1
              /\ \/ user = contracts'[k].athlete
                 \/ user = contracts'[k].sponsor
                 \/ hasRole(factoryRoles, AGENT_ROLE, user)]_vars
  /\ [](\A user \in Accounts, k \in AllContractIds :
          InContractList(user, k) =>
            /\ k < contractCount
            /\ \/ user = contracts[k].athlete
               \/ user = contracts[k].sponsor
               \/ hasRole(factoryRoles, AGENT_ROLE, user))

\* C31 witness: a contract created by an agent who is neither its athlete nor
\* its sponsor is in the lists of all three.
C31_Witness ==
  \E k \in AllContractIds :
     /\ k < contractCount
     /\ InContractList("agent", k)
     /\ InContractList(contracts[k].athlete, k)
     /\ InContractList(contracts[k].sponsor, k)
     /\ "agent" \notin {contracts[k].athlete, contracts[k].sponsor}


\* The sum of the amounts of the paid milestones of a list.
RECURSIVE PaidSum(_)
PaidSum(ms) ==
  IF ms = << >> THEN 0
  ELSE (IF Head(ms).paid THEN Head(ms).amount ELSE 0) + PaidSum(Tail(ms))

\* C32: in every reachable state the amounts of the paid milestones of a
\* contract add up to at most the contract's totalValue.
C32_PaidWithinTotalValue ==
  \A c \in ContractIds : PaidSum(contracts[c].milestones) <= contracts[c].totalValue


\* C33: the contract stored by createContract under the id it returns is in
\* Draft with no milestones and an empty update history; and addMilestones and
\* updateContract addressed to an id that createContract has not yet assigned
\* are rejected for every caller.
C33_FreshContractIsBlank ==
  /\ [][\A k \in ContractIds :
           (k = contractCount /\ contractCount' = contractCount + 1) =>
              /\ contracts'[k].state = "Draft"
              /\ contracts'[k].milestones = << >>
              /\ contracts'[k].updateHistory = << >>]_vars
  /\ [](\A k \in ContractIds : \A sender \in LedgerSenders :
          ~Created(k) =>
             /\ UpdateErr(sender, k) # OK
             /\ \A amounts \in Batches :
                   AddErr(sender, k, Len(amounts), amounts, Len(amounts)) # OK)


\* C34: in every reachable state the parent contract of every Open dispute of
\* the arbitration engine is in Ledger state Disputed.
C34_OpenDisputeParentDisputed ==
  \A d \in DisputeIds :
     OpenDispute(d) => contracts[disputes[d].contractId].state = "Disputed"


\* C35: on a contract that is not Active every submit (completeMilestone,
\* submitMilestone), every payment release (releaseMilestonePayment,
\* approveMilestone) and every rejectMilestone is rejected; and every step that
\* changes the status, the evidence or the paid flag of a stored milestone
\* starts in a state where its contract is Active.
C35_MilestonesChangeOnlyWhileActive ==
  /\ [](\A c \in ContractIds : \A sender \in LedgerSenders :
          \A milestoneIndex \in 0 .. MaxMilestones :
             contracts[c].state # "Active" =>
                /\ SubmitErr(sender, c, milestoneIndex) # OK
                /\ \A msgValue \in Amounts : ReleaseErr(sender, c, milestoneIndex, msgValue) # OK
                /\ rejectMilestoneErr(sender, c, milestoneIndex) # OK)
  /\ [][\A c \in ContractIds : \A i \in MilestoneIdx(c) :
           (\/ contracts'[c].milestones[i].status # contracts[c].milestones[i].status
            \/ contracts'[c].milestones[i].evidence # contracts[c].milestones[i].evidence
            \/ contracts'[c].milestones[i].paid # contracts[c].milestones[i].paid) =>
              contracts[c].state = "Active"]_vars


\* C36: in every reachable state every stored milestone whose paid flag is set
\* has status Completed.
C36_PaidIsCompleted ==
  \A c \in ContractIds : \A i \in MilestoneIdx(c) :
     contracts[c].milestones[i].paid => contracts[c].milestones[i].status = "Completed"

\* C36 witness: an Active contract of the role-based variant holds a paid
\* milestone, on which the sponsor's rejectMilestone is rejected, next to a
\* Rejected one.
C36_Witness ==
  \E c \in ContractIds : \E i \in MilestoneIdx(c), j \in MilestoneIdx(c) :
     /\ variant = "role"
     /\ contracts[c].state = "Active"
     /\ contracts[c].milestones[i].paid
     /\ rejectMilestoneErr(contracts[c].sponsor, c, i - 1) = "Payment already released"
     /\ contracts[c].milestones[j].status = "Rejected"


HasRejected(c) == \E i \in MilestoneIdx(c) : contracts[c].milestones[i].status = "Rejected"

\* C37: from a state in which a milestone of a contract is Rejected on, the
\* contract is never Completed; a Rejected milestone stays Rejected and unpaid,
\* and every submit and every payment release on it is rejected.
C37_RejectedNeverCompleted ==
  /\ [](\A c \in ContractIds : HasRejected(c) => [](contracts[c].state # "Completed"))
  /\ [][\A c \in ContractIds : \A i \in MilestoneIdx(c) :
           contracts[c].milestones[i].status = "Rejected" =>
              /\ contracts'[c].milestones[i].status = "Rejected"
              /\ ~contracts'[c].milestones[i].paid]_vars
  /\ [](\A c \in ContractIds : \A i \in MilestoneIdx(c) : \A sender \in LedgerSenders :
          contracts[c].milestones[i].status = "Rejected" =>
             /\ SubmitErr(sender, c, i - 1) # OK
             /\ \A msgValue \in Amounts : ReleaseErr(sender, c, i - 1, msgValue) # OK)

\* C37 witness: an Active contract all of whose milestones but a Rejected one
\* are paid, and the athlete's submitMilestone on the Rejected one fails.
C37_Witness ==
  \E c \in ContractIds : \E i \in MilestoneIdx(c) :
     /\ contracts[c].state = "Active"
     /\ Len(contracts[c].milestones) > 1
     /\ contracts[c].milestones[i].status = "Rejected"
     /\ \A j \in MilestoneIdx(c) \ {i} : contracts[c].milestones[j].paid
     /\ SubmitErr(contracts[c].athlete, c, i - 1) = "Milestone not pending"


\* C38: in every reachable state and for every dispute record the two tallies
\* add up to the length of the voter list and the voter list holds no address
\* twice; and every step that puts an address into a voter list appends it
\* as the one new entry, from a state in which the address holds the
\* Arbitrator role on the arbitration engine.
C38_VoterListConsistent ==
  /\ [](\A d \in DisputeIds :
          /\ disputes[d].athleteVotes + disputes[d].sponsorVotes =
               Len(disputes[d].votedArbitrators)
          /\ \A i \in 1 .. Len(disputes[d].votedArbitrators) :
               \A j \in 1 .. Len(disputes[d].votedArbitrators) :
                  i # j => disputes[d].votedArbitrators[i] # disputes[d].votedArbitrators[j])
  /\ [][\A d \in DisputeIds : \A a \in Accounts :
           (~InList(a, disputes[d].votedArbitrators) /\ InList(a, disputes'[d].votedArbitrators)) =>
              /\ hasRole(drRoles, ARBITRATOR_ROLE, a)
              /\ disputes'[d].votedArbitrators = Append(disputes[d].votedArbitrators, a)]_vars

\* C38 witness: a dispute record with two voters, one vote for each side.
C38_Witness ==
  \E d \in DisputeIds :
     /\ Len(disputes[d].votedArbitrators) = 2
     /\ disputes[d].athleteVotes = 1
     /\ disputes[d].sponsorVotes = 1
     /\ \A i \in 1 .. 2 : hasRole(drRoles, ARBITRATOR_ROLE, disputes[d].votedArbitrators[i])


\* C39: in every reachable state tokenIdOf and contractIdOf are inverse to
\* each other on the minted tokens: a minted token is the token of its
\* contract id, the token of a contract id that has one is minted and belongs
\* to that contract id, and the sentinel 0 is not a minted token.
C39_MappingsInverse ==
  /\ \A t \in TokenIdSlots : exists(t) <=> t \in Minted
  /\ \A t \in Minted : tokenIdOf[contractIdOf[t]] = t
  /\ \A c \in AllContractIds :
        tokenIdOf[c] # 0 => (tokenIdOf[c] \in Minted /\ contractIdOf[tokenIdOf[c]] = c)
  /\ ~exists(0)

\* C39 witness: both contracts are tokenized, by different tokens, and a
\* further mint for either is rejected.
C39_Witness ==
  /\ tokenIds = 2
  /\ \A c \in AllContractIds :
        /\ tokenIdOf[c] \in Minted
        /\ mintSponsorshipNFTErr(FACTORY, contracts[c].sponsor, c) # OK
  /\ tokenIdOf[0] # tokenIdOf[1]

====
